---- MODULE Spec2Model ----
(***************************************************************************)
(* Room lifecycle of game-services: RoomService (CreateRoom, JoinRoom,     *)
(* LeaveRoom, GetRoom) and ProcessService (StartGame, EndGame) running as  *)
(* concurrent request handlers over the relational store (rooms,           *)
(* room_players), the Redis mirror (room hash, player set), the Redis lock *)
(* keys and the event channel.  Every call a handler makes to the store or *)
(* to Redis is one atomic step; the handler's local computation between    *)
(* two calls belongs to the step of the call that follows it.              *)
(***************************************************************************)
EXTENDS Naturals, Integers, Sequences, FiniteSets, TLC

\* ------------------------------------------------------------------ bounds

\* Request handlers that may run at the same time.
Workers == {1, 2}
\* User identities making requests, and those that create rooms.
Users == {1, 2, 3}
Owners == {1}
\* Calls started over one run, in a reliable and in a faulty environment.
MaxCalls == 2
MaxFaultyCalls == 1
\* game.room.max_players as configured (RoomService.maxPlayers)
MaxPlayers == 2
\* Websocket connections made over one run, and the users making them.
MaxConns == 2
Conns == 1..MaxConns
HubUsers == {1, 2}
\* The capacity of a client's Send queue and of Hub.broadcast.
QueueCap == 1
\* Users with sessions, tasks making session calls at the same time, and the
\* session calls started over one run.
SessUsers == {1, 2}
SessTaskOrder == <<"t1", "t2">>
SessTasks == { SessTaskOrder[i] : i \in DOMAIN SessTaskOrder }
MaxSessionCalls == 2
\* Messages published on the event channel over one run, and the capacity
\* of the stream SubscribeEvents returns.
MaxPublished == 3
ChanCap == 1
\* Tasks calling SendToUser at the same time; SendToUser and Broadcast calls
\* started over one run.
SenderOrder == <<"s1", "s2">>
Senders == { SenderOrder[i] : i \in DOMAIN SenderOrder }
MaxSends == 2

\* The end-to-end scenario: the calls in their order, on a service configured
\* with max_players 2; the calls after the first name the room the first made.
Scenario ==
    << [op |-> "CreateRoom", user |-> 1, max |-> 2],
       [op |-> "JoinRoom", user |-> 2],
       [op |-> "JoinRoom", user |-> 3],
       [op |-> "LeaveRoom", user |-> 2],
       [op |-> "StartGame", user |-> 0],
       [op |-> "EndGame", user |-> 0] >>

\* ------------------------------------------------------- program constants

\* model.RoomStatus
RoomStatusWaiting == 1
RoomStatusPlaying == 2
RoomStatusFinished == 3
RoomStatusCancelled == 4
\* GameState values written to the room hash
GameStateStarting == 2
GameStatePlaying == 3
GameStateFinished == 5
\* lock expirations, in seconds
RoomLockTTL == 5
GameLockTTL == 10
\* utf8.MaxRune, the surrogate range and utf8.RuneError
MaxRune == 1114111
SurrogateMin == 55296
SurrogateMax == 57343
RuneError == 65533
\* the largest int32: rune is int32
MaxInt32 == 2147483647

\* ------------------------------------------------------------- strings

\* string(rune(roomID)): the UTF-8 string of one code point, given as the
\* sequence of its code points; a value that is no valid code point gives
\* the replacement character.  The argument is the rune, an int32: for the
\* ids below 2^31 it is the id itself, for the others see Rune.
RuneString(id) ==
    IF id < 0 \/ id > MaxRune \/ (id >= SurrogateMin /\ id <= SurrogateMax)
    THEN <<RuneError>>
    ELSE <<id>>

\* hex.EncodeToString of 4 random bytes: 8 characters of 0-9a-f, given as
\* code points.  The codes the generator draws from in this model.
RoomCodes == { <<48, 48, 48, 48, 48, 48, 48, 49>> }
\* Room ids a request may name: room_code is unique, so the rooms table
\* never gets more rows than there are codes.
RoomArgs == 1..Cardinality(RoomCodes)

\* LockRepository keys: "lock:" + resource, kept as the literal prefix and
\* the variable tail.
LockKey(prefix, tail) == <<prefix, tail>>
JoinLockKey(code) == LockKey("lock:room:lock:", code)
LeaveLockKey(id) == LockKey("lock:room:lock:", RuneString(id))
GameLockKey(id) == LockKey("lock:game:lock:", RuneString(id))

\* ------------------------------------------------------------- state

VARIABLES
    rooms,      \* rooms table: sequence of rows, row i has id i
    players,    \* room_players table: sequence of rows in insertion order
    hash,       \* Redis "room:<id>" hashes: id -> (field -> value)
    pset,       \* Redis "room:players:<id>" sets: id -> set of users
    lock,       \* Redis lock keys: key -> [value, ttl, by]
    events,     \* messages published on the event channel, in order
    w,          \* per worker: the call it runs, its locals and its position
    calls,      \* calls started so far
    env,        \* "reliable"; "faulty": a store or Redis call may fail;
                \* "cancelling": a running request may be cancelled;
                \* "scenario": reliable, the calls are those of Scenario;
                \* "hub": the connection hub alone; "session": the
                \* sessions alone; "events": the event subscription alone;
                \* "keys": the lock acquisitions for two rooms alone
    emptied     \* history: [room, t] for each LeaveRoom call t that wrote
                \* current_players = 0 to the room's row

\* The connection hub of the same process (websocket.Hub).
VARIABLES
    conns,      \* per connection: its user, where its handler or ReadPump is,
                \* and whether its WritePump runs
    Send,       \* per connection: its outbound queue, and the close calls made
                \* on it
    clients,    \* Hub.clients: the entries <<user, connection>> of the map
    mu,         \* Hub.mu: the task holding it exclusively, the tasks sharing it
    run,        \* Hub.Run: its position and locals
    snd,        \* per calling task: its SendToUser call
    broadcast,  \* Hub.broadcast: the queued messages
    hubcalls,   \* SendToUser and Broadcast calls started so far
    crashed,    \* the runtime error that ended the process and the task that
                \* raised it
    registered  \* history: the connections Hub.Run registered, in order

hubVars == <<conns, Send, clients, mu, run, snd, broadcast, hubcalls, crashed,
             registered>>

\* The sessions and the online set in Redis, and the calls on them.
VARIABLES
    session,    \* Redis "session:<user>" keys: user -> [data, ttl, at]
    online,     \* Redis "user:online" set
    ss,         \* per task: the session call it runs
    sesscalls   \* session calls started so far

sessVars == <<session, online, ss, sesscalls>>

\* The event channel and one subscription to it.
VARIABLES
    pubsub,     \* the payloads published on the event channel, in order
    sub,        \* the subscriber goroutine: its position and locals
    eventChan,  \* the stream SubscribeEvents returns: its queue, and whether
                \* it is closed
    received    \* history: the events the caller took from the stream

subVars == <<pubsub, sub, eventChan, received>>

\* Two rooms of the store and the lock acquisitions of the calls on them.
VARIABLES
    probe       \* the two rooms, and the last AcquireLock made for one of them

keyVars == <<probe>>

otherVars == <<hubVars, sessVars, subVars, keyVars>>

roomVars == <<rooms, players, hash, pset, lock, events, w, calls, emptied>>

\* What the hub, the session calls and the subscription leave alone.
exceptHub == <<roomVars, env, sessVars, subVars, keyVars>>

exceptSess == <<roomVars, env, hubVars, subVars, keyVars>>

exceptSub == <<roomVars, env, hubVars, sessVars, keyVars>>

vars == <<rooms, players, hash, pset, lock, events, w, calls, env, emptied,
          otherVars>>

NoRoom == <<>>
NoKey == <<"", <<>>>>

Idle ==
    [op |-> "", pc |-> "idle", user |-> 0, room |-> 0, code |-> <<>>,
     key |-> NoKey, held |-> FALSE, r |-> NoRoom, n |-> 0, res |-> "",
     cancelled |-> FALSE, lockErr |-> FALSE, relFailed |-> FALSE,
     wfail |-> FALSE, cfail |-> FALSE, t |-> 0,
     state |-> 0, data |-> <<>>, got |-> <<>>, member |-> FALSE]

\* ------------------------------------------------------------- store

RoomIds == 1..Len(rooms)

\* First(&room, id) under the soft-delete scope: the row, or nothing.
GetByID(id) ==
    IF id \in RoomIds /\ ~rooms[id].deleted THEN <<rooms[id]>> ELSE NoRoom

GetByRoomCode(code) ==
    LET ids == { i \in RoomIds : rooms[i].code = code /\ ~rooms[i].deleted }
    IN  IF ids = {} THEN NoRoom ELSE <<rooms[CHOOSE i \in ids : TRUE]>>

\* room_id = ? AND left_at IS NULL
ActiveRows(id) ==
    { i \in 1..Len(players) : players[i].room = id /\ ~players[i].left }

GetByRoomIDAndUserID(id, u) ==
    { i \in ActiveRows(id) : players[i].user = u }

\* Delete(&model.Room{}, id): soft delete, sets deleted_at on a live row.
DeleteRow(id) ==
    [i \in RoomIds |-> IF i = id THEN [rooms[i] EXCEPT !.deleted = TRUE]
                       ELSE rooms[i]]

\* A Save that writes nothing.
SaveNothing(row) == rooms

\* Save(room) on a live row: every column is written from the caller's copy.
SaveRow(row) ==
    [i \in RoomIds |-> IF i = row.id THEN row ELSE rooms[i]]

\* UPDATE room_players SET left_at = NOW() WHERE room_id = ? AND user_id = ?
LeaveRows(id, u) ==
    [i \in 1..Len(players) |->
        IF players[i].room = id /\ players[i].user = u
        THEN [players[i] EXCEPT !.left = TRUE]
        ELSE players[i]]

\* ------------------------------------------------------------- Redis

\* A write that makes the given fields the whole hash, as DEL and HSET.
HSetOnly(id, data) ==
    [i \in (DOMAIN hash) \cup {id} |-> IF i = id THEN data ELSE hash[i]]

\* HSET key field value ...: merges the given fields into the hash.
HSet(id, data) ==
    LET old == IF id \in DOMAIN hash THEN hash[id] ELSE <<>>
        merged == [f \in (DOMAIN old) \cup (DOMAIN data) |->
                      IF f \in DOMAIN data THEN data[f] ELSE old[f]]
    IN  [i \in (DOMAIN hash) \cup {id} |-> IF i = id THEN merged ELSE hash[i]]

SAdd(id, u) ==
    [i \in (DOMAIN pset) \cup {id} |->
        IF i = id THEN (IF id \in DOMAIN pset THEN pset[id] ELSE {}) \cup {u}
        ELSE pset[i]]

\* SREM: a set that becomes empty is removed with its key.
SRem(id, u) ==
    LET keep == { i \in DOMAIN pset : i # id \/ pset[i] \ {u} # {} }
    IN  [i \in keep |-> IF i = id THEN pset[i] \ {u} ELSE pset[i]]

DelKey(f, k) == [i \in (DOMAIN f) \ {k} |-> f[i]]

\* syncRoomToRedis: the fields of the caller's room copy.
RoomData(row) ==
    [id |-> row.id, room_code |-> row.code, owner_id |-> row.owner,
     status |-> row.status, max_players |-> row.max,
     current_players |-> row.cur]

\* The key k as SET k "1" EX ttl leaves it; `by` is history (the number of the
\* call that set the key): the value Redis holds is "1" for every caller.
LockSet(k, ttl, t) ==
    [i \in (DOMAIN lock) \cup {k} |->
        IF i = k THEN [value |-> "1", ttl |-> ttl, by |-> t] ELSE lock[i]]

\* SET k "1" EX ttl without NX: written whether or not the key exists.
SetAlways(k, ttl, t) == [ok |-> TRUE, lock |-> LockSet(k, ttl, t)]

\* SET k "1" EX ttl NX: written only when the key is absent; the reply says
\* whether it was.
SetNX(k, ttl, t) ==
    IF k \in DOMAIN lock
    THEN [ok |-> FALSE, lock |-> lock]
    ELSE [ok |-> TRUE, lock |-> LockSet(k, ttl, t)]

\* ------------------------------------------------------------- environment

\* Outcomes of one store or Redis call made by worker p: a call made with a
\* cancelled request context fails before it is sent; otherwise it succeeds,
\* or, in a faulty environment, fails without effect.
IO(p) ==
    IF w[p].cancelled THEN {FALSE}
    ELSE IF env = "faulty" THEN {TRUE, FALSE} ELSE {TRUE}

\* Save(room), as roomRepo.Update: a live row is overwritten.  On a row that
\* was soft-deleted meanwhile the UPDATE matches nothing and gorm falls back to
\* an insert, which either fails on the primary key or, as an upsert, writes
\* the caller's copy over the row (deleted_at included): both are possible.
Update(row) ==
    IF rooms[row.id].deleted
    THEN {[ok |-> FALSE, rooms |-> rooms], [ok |-> TRUE, rooms |-> SaveRow(row)]}
    ELSE {[ok |-> TRUE, rooms |-> SaveRow(row)]}

\* ------------------------------------------------------------- handlers

\* No call is in flight.
Quiet == \A p \in Workers : w[p].pc = "idle"

\* Worker p may take a new request: requests go to the lowest idle worker
\* (the workers are interchangeable).
Free(p) ==
    /\ w[p].pc = "idle"
    /\ calls < (IF env = "reliable" THEN MaxCalls
                ELSE IF env = "scenario" THEN Len(Scenario)
                ELSE MaxFaultyCalls)
    /\ \A q \in Workers : q < p => w[q].pc # "idle"

Set(p, c) == w' = [w EXCEPT ![p] = c]

\* A new call of worker p: its number serves as its time.now().
Begin(p, op, u, id, code, key) ==
    [Idle EXCEPT !.op = op, !.user = u, !.room = id, !.code = code,
                 !.key = key, !.t = calls + 1]

\* return utils.NewError(...) or nil under the deferred ReleaseLock; the
\* locals are dead from here on
Exit(c, res) ==
    [c EXCEPT !.pc = "release", !.res = res, !.r = NoRoom, !.n = 0]

\* return where no release is deferred
Reject(c, res) ==
    [c EXCEPT !.pc = "done", !.res = res, !.r = NoRoom, !.n = 0]

\* History of the call c: whether a store write (wfail) or a write to the room
\* mirror (cfail) it made has failed.
StoreWrite(c, ok) == [c EXCEPT !.wfail = @ \/ ~ok]

MirrorWrite(c, ok) == [c EXCEPT !.cfail = @ \/ ~ok]

\* An AcquireLock error taken for a key that is held.
AcquireConflictOnError(c) == Reject([c EXCEPT !.lockErr = TRUE], "Conflict")

\* if err != nil { return Internal }: lockErr is history (AcquireLock
\* returned an error)
AcquireFailed(c) == Reject([c EXCEPT !.lockErr = TRUE], "Internal")

\* The release deferred before the check on `acquired`.
NotAcquiredUnderDefer(c) == Exit(c, "Conflict")

\* if !acquired { return Conflict }
NotAcquired(c) == Reject(c, "Conflict")

\* acquired, err := AcquireLock(ctx, lockKey, ttl) and the two checks on it
AcquireLock(p, c, ttl, next) ==
    \E ok \in IO(p) :
        /\ calls' = calls + 1
        /\ IF ~ok
           THEN /\ Set(p, AcquireFailed(c))
                /\ UNCHANGED lock
           ELSE LET s == SetNX(c.key, ttl, c.t)
                IN  /\ lock' = s.lock
                    /\ Set(p, IF s.ok THEN [c EXCEPT !.pc = next, !.held = TRUE]
                                      ELSE NotAcquired(c))

\* defer s.lockRepo.ReleaseLock(ctx, lockKey): DEL, its error dropped
ReleaseLock(p) ==
    /\ w[p].pc = "release"
    /\ \E ok \in IO(p) :
        /\ lock' = IF ok THEN DelKey(lock, w[p].key) ELSE lock
        /\ Set(p, [w[p] EXCEPT !.pc = "done", !.relFailed = ~ok])
    /\ UNCHANGED <<rooms, players, hash, pset, events, calls, emptied, env,
                   otherVars>>

\* ---- RoomService.CreateRoom

\* s.maxPlayers, from game.room.max_players
Capacity == IF env = "scenario" THEN Scenario[1].max ELSE MaxPlayers

NewRoom(id, code, owner) ==
    [id |-> id, code |-> code, owner |-> owner, status |-> RoomStatusWaiting,
     max |-> Capacity, cur |-> 0, started |-> 0, ended |-> 0,
     deleted |-> FALSE]

NewPlayer(id, u, pos) == [room |-> id, user |-> u, pos |-> pos, left |-> FALSE]

\* generateRoomCode and roomRepo.Create: room_code is unique over all rows
CreateInsert(p, u) ==
    /\ Free(p)
    /\ \E code \in RoomCodes, ok \in IO(p) :
        LET c == Begin(p, "CreateRoom", u, 0, code, NoKey)
            row == NewRoom(Len(rooms) + 1, code, u)
            dup == \E i \in RoomIds : rooms[i].code = code
        IN  /\ IF ok /\ ~dup
               THEN /\ rooms' = Append(rooms, row)
                    /\ Set(p, [c EXCEPT !.pc = "c_member", !.room = row.id,
                                        !.r = <<row>>])
               ELSE /\ UNCHANGED rooms
                    /\ Set(p, Reject(StoreWrite(c, FALSE), "Internal"))
    /\ calls' = calls + 1
    /\ UNCHANGED <<players, hash, pset, lock, events, emptied, env,
                   otherVars>>

\* roomPlayerRepo.Create of the owner at position 0
CreateMember(p) ==
    /\ w[p].pc = "c_member"
    /\ \E ok \in IO(p) :
        /\ IF ok
           THEN /\ players' = Append(players, NewPlayer(w[p].room, w[p].user, 0))
                /\ Set(p, [w[p] EXCEPT !.pc = "c_update"])
           ELSE /\ UNCHANGED players
                /\ Set(p, [StoreWrite(w[p], FALSE) EXCEPT !.pc = "c_rollback"])
    /\ UNCHANGED <<rooms, hash, pset, lock, events, calls, emptied, env,
                   otherVars>>

\* the rollback: s.roomRepo.Delete(ctx, room.ID), its error dropped
CreateRollback(p) ==
    /\ w[p].pc = "c_rollback"
    /\ \E ok \in IO(p) :
        /\ rooms' = IF ok THEN DeleteRow(w[p].room) ELSE rooms
        /\ Set(p, Reject(StoreWrite(w[p], ok), "Internal"))
    /\ UNCHANGED <<players, hash, pset, lock, events, calls, emptied, env,
                   otherVars>>

\* room.CurrentPlayers = 1; roomRepo.Update, its error only logged
CreateUpdate(p) ==
    /\ w[p].pc = "c_update"
    /\ LET row == [w[p].r[1] EXCEPT !.cur = 1]
       IN  \E ok \in IO(p) :
            \E u \in Update(row) :
                /\ rooms' = IF ok THEN u.rooms ELSE rooms
                /\ Set(p, [StoreWrite(w[p], ok /\ u.ok) EXCEPT
                                !.pc = "c_sync", !.r = <<row>>])
    /\ UNCHANGED <<players, hash, pset, lock, events, calls, emptied, env,
                   otherVars>>

\* syncRoomToRedis, then return the room
CreateSync(p) ==
    /\ w[p].pc = "c_sync"
    /\ \E ok \in IO(p) :
        /\ hash' = IF ok THEN HSet(w[p].room, RoomData(w[p].r[1])) ELSE hash
        /\ Set(p, Reject(MirrorWrite(w[p], ok), "OK"))
    /\ UNCHANGED <<rooms, players, pset, lock, events, calls, emptied, env,
                   otherVars>>

\* ---- RoomService.JoinRoom

JoinAcquire(p, u, code) ==
    /\ Free(p)
    /\ AcquireLock(p, Begin(p, "JoinRoom", u, 0, code, JoinLockKey(code)),
                   RoomLockTTL, "j_read")
    /\ UNCHANGED <<rooms, players, hash, pset, events, emptied, env,
                   otherVars>>

\* the checks on the room read, without the one on capacity
JoinChecksNoCapacity(c, got) ==
    IF got = NoRoom THEN Exit(c, "NotFound")
    ELSE IF got[1].status # RoomStatusWaiting THEN Exit(c, "Conflict")
    ELSE [c EXCEPT !.pc = "j_existing", !.r = got, !.room = got[1].id]

\* roomRepo.GetByRoomCode and the checks on the room read
JoinChecks(c, got) ==
    IF got = NoRoom THEN Exit(c, "NotFound")
    ELSE IF got[1].status # RoomStatusWaiting THEN Exit(c, "Conflict")
    ELSE IF got[1].cur >= got[1].max THEN Exit(c, "Conflict")
    ELSE [c EXCEPT !.pc = "j_existing", !.r = got, !.room = got[1].id]

JoinRead(p) ==
    /\ w[p].pc = "j_read"
    /\ \E ok \in IO(p) :
        /\ Set(p, IF ok THEN JoinChecks(w[p], GetByRoomCode(w[p].code))
                        ELSE Exit(w[p], "Internal"))
    /\ UNCHANGED <<rooms, players, hash, pset, lock, events, calls, env,
                   emptied,
                   otherVars>>

\* roomPlayerRepo.GetByRoomIDAndUserID: an active membership rejects the join
JoinExisting(p) ==
    /\ w[p].pc = "j_existing"
    /\ \E ok \in IO(p) :
        /\ Set(p, IF ~ok THEN Exit(w[p], "Internal")
                  ELSE IF GetByRoomIDAndUserID(w[p].room, w[p].user) # {}
                       THEN Exit(w[p], "Conflict")
                       ELSE [w[p] EXCEPT !.pc = "j_players"])
    /\ UNCHANGED <<rooms, players, hash, pset, lock, events, calls, env,
                   emptied,
                   otherVars>>

\* players := roomPlayerRepo.GetByRoomID; Position = len(players)
JoinPlayers(p) ==
    /\ w[p].pc = "j_players"
    /\ \E ok \in IO(p) :
        /\ Set(p, IF ~ok THEN Exit(w[p], "Internal")
                  ELSE [w[p] EXCEPT !.pc = "j_create",
                                    !.n = Cardinality(ActiveRows(w[p].room))])
    /\ UNCHANGED <<rooms, players, hash, pset, lock, events, calls, env,
                   emptied,
                   otherVars>>

JoinCreate(p) ==
    /\ w[p].pc = "j_create"
    /\ \E ok \in IO(p) :
        /\ IF ok
           THEN /\ players' = Append(players,
                                     NewPlayer(w[p].room, w[p].user, w[p].n))
                /\ Set(p, [w[p] EXCEPT !.pc = "j_update"])
           ELSE /\ UNCHANGED players
                /\ Set(p, Exit(StoreWrite(w[p], FALSE), "Internal"))
    /\ UNCHANGED <<rooms, hash, pset, lock, events, calls, emptied, env,
                   otherVars>>

\* room.CurrentPlayers++; roomRepo.Update, its error only logged
JoinUpdate(p) ==
    /\ w[p].pc = "j_update"
    /\ LET row == [w[p].r[1] EXCEPT !.cur = @ + 1]
       IN  \E ok \in IO(p) :
            \E u \in Update(row) :
                /\ rooms' = IF ok THEN u.rooms ELSE rooms
                /\ Set(p, [StoreWrite(w[p], ok /\ u.ok) EXCEPT
                                !.pc = "j_sync", !.r = <<row>>])
    /\ UNCHANGED <<players, hash, pset, lock, events, calls, emptied, env,
                   otherVars>>

JoinSync(p) ==
    /\ w[p].pc = "j_sync"
    /\ \E ok \in IO(p) :
        /\ hash' = IF ok THEN HSet(w[p].room, RoomData(w[p].r[1])) ELSE hash
        /\ Set(p, [MirrorWrite(w[p], ok) EXCEPT !.pc = "j_sadd"])
    /\ UNCHANGED <<rooms, players, pset, lock, events, calls, emptied, env,
                   otherVars>>

\* redisRoomRepo.AddRoomPlayer, then return the room
JoinAddPlayer(p) ==
    /\ w[p].pc = "j_sadd"
    /\ \E ok \in IO(p) :
        /\ pset' = IF ok THEN SAdd(w[p].room, w[p].user) ELSE pset
        /\ Set(p, Exit(MirrorWrite(w[p], ok), "OK"))
    /\ UNCHANGED <<rooms, players, hash, lock, events, calls, emptied, env,
                   otherVars>>

\* ---- RoomService.LeaveRoom

LeaveAcquire(p, u, id) ==
    /\ Free(p)
    /\ AcquireLock(p, Begin(p, "LeaveRoom", u, id, <<>>, LeaveLockKey(id)),
                   RoomLockTTL, "l_read")
    /\ UNCHANGED <<rooms, players, hash, pset, events, emptied, env,
                   otherVars>>

LeaveRead(p) ==
    /\ w[p].pc = "l_read"
    /\ \E ok \in IO(p) :
        /\ Set(p, IF ~ok THEN Exit(w[p], "Internal")
                  ELSE IF GetByID(w[p].room) = NoRoom
                       THEN Exit(w[p], "NotFound")
                       ELSE [w[p] EXCEPT !.pc = "l_mark",
                                         !.r = GetByID(w[p].room)])
    /\ UNCHANGED <<rooms, players, hash, pset, lock, events, calls, env,
                   emptied,
                   otherVars>>

\* roomPlayerRepo.LeaveRoom; then the branch on room.CurrentPlayers > 0.
\* `member` is history: whether the UPDATE found an active membership of
\* the caller (the code does not look at the rows affected).
LeaveMark(p) ==
    /\ w[p].pc = "l_mark"
    /\ \E ok \in IO(p) :
        /\ IF ok
           THEN /\ players' = LeaveRows(w[p].room, w[p].user)
                /\ Set(p, [w[p] EXCEPT !.pc = IF w[p].r[1].cur > 0
                                              THEN "l_update" ELSE "l_delete",
                                       !.member = GetByRoomIDAndUserID(
                                                    w[p].room, w[p].user) # {}])
           ELSE /\ UNCHANGED players
                /\ Set(p, Exit(StoreWrite(w[p], FALSE), "Internal"))
    /\ UNCHANGED <<rooms, hash, pset, lock, events, calls, emptied, env,
                   otherVars>>

\* room.CurrentPlayers--; roomRepo.Update, its error only logged; then the
\* branch on room.CurrentPlayers == 0
LeaveUpdate(p) ==
    /\ w[p].pc = "l_update"
    /\ LET row == [w[p].r[1] EXCEPT !.cur = @ - 1]
       IN  \E ok \in IO(p) :
            /\ \E u \in Update(row) :
                /\ rooms' = IF ok THEN u.rooms ELSE rooms
                /\ emptied' = IF ok /\ u.ok /\ row.cur = 0
                              THEN emptied \cup {[room |-> row.id, t |-> w[p].t]}
                              ELSE emptied
                /\ Set(p, [StoreWrite(w[p], ok /\ u.ok) EXCEPT
                                !.pc = IF row.cur = 0 THEN "l_delete" ELSE "l_sync",
                                !.r = <<row>>])
    /\ UNCHANGED <<players, hash, pset, lock, events, calls, env,
                   otherVars>>

\* roomRepo.Delete, its error only logged
LeaveDelete(p) ==
    /\ w[p].pc = "l_delete"
    /\ \E ok \in IO(p) :
        /\ rooms' = IF ok THEN DeleteRow(w[p].room) ELSE rooms
        /\ Set(p, [StoreWrite(w[p], ok) EXCEPT !.pc = "l_delcache"])
    /\ UNCHANGED <<players, hash, pset, lock, events, calls, emptied, env,
                   otherVars>>

\* redisRoomRepo.DeleteRoom: DEL room:<id> room:players:<id>
LeaveDeleteCache(p) ==
    /\ w[p].pc = "l_delcache"
    /\ \E ok \in IO(p) :
        /\ hash' = IF ok THEN DelKey(hash, w[p].room) ELSE hash
        /\ pset' = IF ok THEN DelKey(pset, w[p].room) ELSE pset
        /\ Set(p, Exit(MirrorWrite(w[p], ok), "OK"))
    /\ UNCHANGED <<rooms, players, lock, events, calls, emptied, env,
                   otherVars>>

LeaveSync(p) ==
    /\ w[p].pc = "l_sync"
    /\ \E ok \in IO(p) :
        /\ hash' = IF ok THEN HSet(w[p].room, RoomData(w[p].r[1])) ELSE hash
        /\ Set(p, [MirrorWrite(w[p], ok) EXCEPT !.pc = "l_srem"])
    /\ UNCHANGED <<rooms, players, pset, lock, events, calls, emptied, env,
                   otherVars>>

LeaveRemovePlayer(p) ==
    /\ w[p].pc = "l_srem"
    /\ \E ok \in IO(p) :
        /\ pset' = IF ok THEN SRem(w[p].room, w[p].user) ELSE pset
        /\ Set(p, Exit(MirrorWrite(w[p], ok), "OK"))
    /\ UNCHANGED <<rooms, players, hash, lock, events, calls, emptied, env,
                   otherVars>>

\* ---- RoomService.GetRoom

GetRoom(p, id) ==
    /\ Free(p)
    /\ \E ok \in IO(p) :
        LET c == Begin(p, "GetRoom", 0, id, <<>>, NoKey)
        IN  /\ Set(p, IF ~ok THEN Reject(c, "Internal")
                      ELSE IF GetByID(id) = NoRoom THEN Reject(c, "NotFound")
                      ELSE Reject(c, "OK"))
    /\ calls' = calls + 1
    /\ UNCHANGED <<rooms, players, hash, pset, lock, events, emptied, env,
                   otherVars>>

\* ---- ProcessService.StartGame

StartAcquire(p, id) ==
    /\ Free(p)
    /\ AcquireLock(p, Begin(p, "StartGame", 0, id, <<>>, GameLockKey(id)),
                   GameLockTTL, "s_read")
    /\ UNCHANGED <<rooms, players, hash, pset, events, emptied, env,
                   otherVars>>

\* the checks on the room read, without the one on its status
StartChecksAnyStatus(c, got) ==
    IF got = NoRoom THEN Exit(c, "NotFound")
    ELSE [c EXCEPT !.pc = "s_update", !.r = got]

\* roomRepo.GetByID and the status check
StartChecks(c, got) ==
    IF got = NoRoom THEN Exit(c, "NotFound")
    ELSE IF got[1].status # RoomStatusWaiting THEN Exit(c, "Conflict")
    ELSE [c EXCEPT !.pc = "s_update", !.r = got]

StartRead(p) ==
    /\ w[p].pc = "s_read"
    /\ \E ok \in IO(p) :
        /\ Set(p, IF ok THEN StartChecks(w[p], GetByID(w[p].room))
                        ELSE Exit(w[p], "Internal"))
    /\ UNCHANGED <<rooms, players, hash, pset, lock, events, calls, env,
                   emptied,
                   otherVars>>

\* room.Status = Playing; room.StartedAt = &now; roomRepo.Update
StartUpdate(p) ==
    /\ w[p].pc = "s_update"
    /\ LET row == [w[p].r[1] EXCEPT !.status = RoomStatusPlaying,
                                    !.started = w[p].t]
       IN  \E ok \in IO(p), u \in Update(row) :
            /\ IF ok /\ u.ok
               THEN /\ rooms' = u.rooms
                    /\ Set(p, [w[p] EXCEPT !.pc = "s_hset", !.r = <<row>>])
               ELSE /\ UNCHANGED rooms
                    /\ Set(p, Exit(StoreWrite([w[p] EXCEPT !.r = <<row>>], FALSE),
                                   "Internal"))
    /\ UNCHANGED <<players, hash, pset, lock, events, calls, emptied, env,
                   otherVars>>

StartSetState(p) ==
    /\ w[p].pc = "s_hset"
    /\ \E ok \in IO(p) :
        /\ hash' = IF ok
                   THEN HSet(w[p].room, [status |-> RoomStatusPlaying,
                                         started_at |-> w[p].t,
                                         game_state |-> GameStateStarting])
                   ELSE hash
        /\ Set(p, [MirrorWrite(w[p], ok) EXCEPT !.pc = "s_publish"])
    /\ UNCHANGED <<rooms, players, pset, lock, events, calls, emptied, env,
                   otherVars>>

\* PublishEvent, its error only logged; then return nil
Publish(p, type) ==
    \E ok \in IO(p) :
        /\ events' = IF ok
                     THEN Append(events, [type |-> type, room_id |-> w[p].room,
                                          by |-> w[p].t])
                     ELSE events
        /\ Set(p, Exit(w[p], "OK"))

StartPublish(p) ==
    /\ w[p].pc = "s_publish"
    /\ Publish(p, "game_start")
    /\ UNCHANGED <<rooms, players, hash, pset, lock, calls, emptied, env,
                   otherVars>>

\* ---- ProcessService.EndGame

EndAcquire(p, id) ==
    /\ Free(p)
    /\ AcquireLock(p, Begin(p, "EndGame", 0, id, <<>>, GameLockKey(id)),
                   GameLockTTL, "e_read")
    /\ UNCHANGED <<rooms, players, hash, pset, events, emptied, env,
                   otherVars>>

EndRead(p) ==
    /\ w[p].pc = "e_read"
    /\ \E ok \in IO(p) :
        /\ Set(p, IF ~ok THEN Exit(w[p], "Internal")
                  ELSE IF GetByID(w[p].room) = NoRoom
                       THEN Exit(w[p], "NotFound")
                       ELSE [w[p] EXCEPT !.pc = "e_update",
                                         !.r = GetByID(w[p].room)])
    /\ UNCHANGED <<rooms, players, hash, pset, lock, events, calls, env,
                   emptied,
                   otherVars>>

\* room.Status = Finished; room.EndedAt = &now; roomRepo.Update
EndUpdate(p) ==
    /\ w[p].pc = "e_update"
    /\ LET row == [w[p].r[1] EXCEPT !.status = RoomStatusFinished,
                                    !.ended = w[p].t]
       IN  \E ok \in IO(p), u \in Update(row) :
            /\ IF ok /\ u.ok
               THEN /\ rooms' = u.rooms
                    /\ Set(p, [w[p] EXCEPT !.pc = "e_hset", !.r = <<row>>])
               ELSE /\ UNCHANGED rooms
                    /\ Set(p, Exit(StoreWrite([w[p] EXCEPT !.r = <<row>>], FALSE),
                                   "Internal"))
    /\ UNCHANGED <<players, hash, pset, lock, events, calls, emptied, env,
                   otherVars>>

EndSetState(p) ==
    /\ w[p].pc = "e_hset"
    /\ \E ok \in IO(p) :
        /\ hash' = IF ok
                   THEN HSet(w[p].room, [status |-> RoomStatusFinished,
                                         ended_at |-> w[p].t,
                                         game_state |-> GameStateFinished,
                                         results |-> w[p].t])
                   ELSE hash
        /\ Set(p, [MirrorWrite(w[p], ok) EXCEPT !.pc = "e_publish"])
    /\ UNCHANGED <<rooms, players, pset, lock, events, calls, emptied, env,
                   otherVars>>

EndPublish(p) ==
    /\ w[p].pc = "e_publish"
    /\ Publish(p, "game_end")
    /\ UNCHANGED <<rooms, players, hash, pset, lock, calls, emptied, env,
                   otherVars>>

\* ---- the handler returns; the environment

\* The handler has returned and its worker takes the next request.
Finish(p) ==
    /\ w[p].pc = "done"
    /\ Set(p, Idle)
    /\ UNCHANGED <<rooms, players, hash, pset, lock, events, calls, env,
                   emptied,
                   otherVars>>

\* The expiration of a lock key elapses: Redis removes the key.
Expire(k) ==
    /\ k \in DOMAIN lock
    /\ lock' = DelKey(lock, k)
    /\ UNCHANGED <<rooms, players, hash, pset, events, w, calls, env, emptied,
                   otherVars>>

\* The client goes away: the request context of a running call is cancelled.
Cancel(p) ==
    /\ w[p].pc \notin {"idle", "done"}
    /\ ~w[p].cancelled
    /\ Set(p, [w[p] EXCEPT !.cancelled = TRUE])
    /\ UNCHANGED <<rooms, players, hash, pset, lock, events, calls, env,
                   emptied,
                   otherVars>>

\* ------------------------------------------------------------- websocket.Hub

NoConn == [user |-> 0, st |-> "none", writer |-> "none"]

NoError == [by |-> "", error |-> ""]

NoSend == [pc |-> "idle", user |-> 0, c |-> 0, msg |-> 0]

RunSelect == [pc |-> "select", c |-> 0, msg |-> 0, todo |-> {}]

\* NewHub, before any connection is made
HubInit ==
    /\ conns = [c \in Conns |-> NoConn]
    /\ Send = [c \in Conns |-> [buf |-> <<>>, closes |-> 0]]
    /\ clients = {}
    /\ mu = [writer |-> "", readers |-> {}]
    /\ run = RunSelect
    /\ snd = [s \in Senders |-> NoSend]
    /\ broadcast = <<>>
    /\ hubcalls = 0
    /\ crashed = NoError
    /\ registered = <<>>

\* The hub after the first connection was registered and QueueCap messages
\* were sent to its user before its WritePump took any.
HubSlow ==
    /\ conns = [c \in Conns |->
                    IF c = 1 THEN [user |-> 1, st |-> "open", writer |-> "run"]
                    ELSE NoConn]
    /\ Send = [c \in Conns |->
                 [buf |-> IF c = 1 THEN [i \in 1..QueueCap |-> 0] ELSE <<>>,
                  closes |-> 0]]
    /\ clients = { <<1, 1>> }
    /\ mu = [writer |-> "", readers |-> {}]
    /\ run = RunSelect
    /\ snd = [s \in Senders |-> NoSend]
    /\ broadcast = <<>>
    /\ hubcalls = 0
    /\ crashed = NoError
    /\ registered = <<1>>

\* A panic or a fatal error of any goroutine ends the process.
Live == crashed = NoError

\* v, ok := m[k]: the entries under the key
MapGet(m, k) == { e \in m : e[1] = k }

\* An assignment that leaves what the key held in place.
MapAdd(m, k, v) == m \cup { <<k, v>> }

\* m[k] = v
MapSet(m, k, v) == { e \in m : e[1] # k } \cup { <<k, v>> }

\* delete(m, k)
MapDelete(m, k) == { e \in m : e[1] # k }

\* The user identities with an entry.
MapKeys(m) == { e[1] : e \in m }

\* close(client.Send): closing a closed channel panics
Close(c, task) ==
    /\ Send' = [Send EXCEPT ![c].closes = @ + 1]
    /\ crashed' = IF Send[c].closes > 0
                     THEN [by |-> task, error |-> "close of closed channel"]
                     ELSE crashed

\* select { case client.Send <- message: ... default: ... }: what the send
\* case does on the queue of c
Offer(c) ==
    IF Send[c].closes > 0 THEN "panic"
    ELSE IF Len(Send[c].buf) < QueueCap THEN "sent"
    ELSE "full"

\* HandleWebSocket makes the client of a new connection of user u and offers
\* it on hub.register; case client := <-h.register of Hub.Run takes it, and
\* the handler goes on and starts the pumps.  The users are interchangeable:
\* they first connect in their order.
RunRegister(c, u) ==
    /\ Live
    /\ run.pc = "select"
    /\ conns[c].st = "none"
    /\ \A d \in Conns : d < c => conns[d].st # "none"
    /\ \A v \in HubUsers : v < u => \E d \in Conns : conns[d].user = v
    /\ conns' = [conns EXCEPT ![c] = [user |-> u, st |-> "open",
                                      writer |-> "run"]]
    /\ run' = [run EXCEPT !.pc = "r_lock", !.c = c]
    /\ UNCHANGED <<Send, clients, mu, snd, broadcast, hubcalls, crashed,
                   registered, exceptHub>>

\* HandleWebSocket has made the client of a new connection of user u and
\* waits at hub.register <- client for Hub.Run to take it.
HandleWebSocket(c, u) ==
    /\ Live
    /\ conns[c].st = "none"
    /\ \A d \in Conns : d < c => conns[d].st # "none"
    /\ \A v \in HubUsers : v < u => \E d \in Conns : conns[d].user = v
    /\ conns' = [conns EXCEPT ![c] = [user |-> u, st |-> "connecting",
                                      writer |-> "none"]]
    /\ UNCHANGED <<Send, clients, mu, run, snd, broadcast, hubcalls, crashed,
                   registered, exceptHub>>

\* case client := <-h.register takes the client of a waiting handler, which
\* goes on and starts the pumps.
RunRegisterWaiting(c) ==
    /\ Live
    /\ run.pc = "select"
    /\ conns[c].st = "connecting"
    /\ conns' = [conns EXCEPT ![c].st = "open", ![c].writer = "run"]
    /\ run' = [run EXCEPT !.pc = "r_lock", !.c = c]
    /\ UNCHANGED <<Send, clients, mu, snd, broadcast, hubcalls, crashed,
                   registered, exceptHub>>

\* h.mu.Lock() of Hub.Run
RunLock ==
    /\ Live
    /\ run.pc \in {"r_lock", "u_lock"}
    /\ mu.writer = "" /\ mu.readers = {}
    /\ mu' = [mu EXCEPT !.writer = "run"]
    /\ run' = [run EXCEPT !.pc = IF run.pc = "r_lock" THEN "r_set" ELSE "u_del"]
    /\ UNCHANGED <<conns, Send, clients, snd, broadcast, hubcalls, crashed,
                   registered, exceptHub>>

\* h.clients[client.UserID] = client; h.mu.Unlock()
RunRegisterSet ==
    /\ Live
    /\ run.pc = "r_set"
    /\ clients' = MapSet(clients, conns[run.c].user, run.c)
    /\ registered' = Append(registered, run.c)
    /\ mu' = [mu EXCEPT !.writer = ""]
    /\ run' = RunSelect
    /\ UNCHANGED <<conns, Send, snd, broadcast, hubcalls, crashed, exceptHub>>

\* ReadPump: ReadMessage fails (the client is gone, or the connection was
\* closed on this side) and the deferred function waits at
\* c.Hub.unregister <- c for Hub.Run to take the client.
ReadPumpExit(c) ==
    /\ Live
    /\ conns[c].st = "open"
    /\ conns' = [conns EXCEPT ![c].st = "leaving"]
    /\ UNCHANGED <<Send, clients, mu, run, snd, broadcast, hubcalls, crashed,
                   registered, exceptHub>>

\* ReadPump: ReadMessage fails and the deferred function offers the client on
\* hub.unregister; case client := <-h.unregister of Hub.Run takes it (from a
\* ReadPump that comes to offer it, or from one that waits), and ReadPump
\* goes on to c.Conn.Close() and ends.
RunUnregister(c) ==
    /\ Live
    /\ run.pc = "select"
    /\ conns[c].st \in {"open", "leaving"}
    /\ conns' = [conns EXCEPT ![c].st = "gone"]
    /\ run' = [run EXCEPT !.pc = "u_lock", !.c = c]
    /\ UNCHANGED <<Send, clients, mu, snd, broadcast, hubcalls, crashed,
                   registered, exceptHub>>

\* if _, ok := h.clients[client.UserID]; ok { delete; close(client.Send) };
\* h.mu.Unlock()
RunUnregisterDelete ==
    /\ Live
    /\ run.pc = "u_del"
    /\ IF MapGet(clients, conns[run.c].user) # {}
          THEN /\ clients' = MapDelete(clients, conns[run.c].user)
               /\ Close(run.c, "run")
          ELSE UNCHANGED <<clients, Send, crashed>>
    /\ mu' = [mu EXCEPT !.writer = ""]
    /\ run' = RunSelect
    /\ UNCHANGED <<conns, snd, broadcast, hubcalls, registered, exceptHub>>

\* Hub.Broadcast: h.broadcast <- data, which waits while the queue is full
Broadcast ==
    /\ Live
    /\ hubcalls < MaxSends
    /\ Len(broadcast) < QueueCap
    /\ hubcalls' = hubcalls + 1
    /\ broadcast' = Append(broadcast, hubcalls + 1)
    /\ UNCHANGED <<conns, Send, clients, mu, run, snd, crashed, registered, exceptHub>>

\* case message := <-h.broadcast
RunBroadcast ==
    /\ Live
    /\ run.pc = "select"
    /\ broadcast # <<>>
    /\ broadcast' = Tail(broadcast)
    /\ run' = [run EXCEPT !.pc = "b_rlock", !.msg = Head(broadcast)]
    /\ UNCHANGED <<conns, Send, clients, mu, snd, hubcalls, crashed,
                   registered, exceptHub>>

\* h.mu.RLock(); the range over h.clients begins
RunBroadcastRLock ==
    /\ Live
    /\ run.pc = "b_rlock"
    /\ mu.writer = ""
    /\ mu' = [mu EXCEPT !.readers = @ \cup {"run"}]
    /\ run' = [run EXCEPT !.pc = "b_range", !.todo = MapKeys(clients)]
    /\ UNCHANGED <<conns, Send, clients, snd, broadcast, hubcalls, crashed,
                   registered, exceptHub>>

\* One iteration of the range: the select on client.Send, and close in its
\* default case.  The range visits the entries in any order and skips those
\* deleted before it reaches them.
RunBroadcastSend(e) ==
    /\ Live
    /\ run.pc = "b_range"
    /\ e \in clients /\ e[1] \in run.todo
    /\ LET c == e[2]
       IN  CASE Offer(c) = "panic" ->
                   /\ crashed' = [by |-> "run",
                                  error |-> "send on closed channel"]
                   /\ UNCHANGED <<Send, run>>
             [] Offer(c) = "sent" ->
                   /\ Send' = [Send EXCEPT ![c].buf = Append(@, run.msg)]
                   /\ run' = [run EXCEPT !.todo = @ \ {e[1]}]
                   /\ UNCHANGED crashed
             [] Offer(c) = "full" ->
                   /\ Close(c, "run")
                   /\ run' = [run EXCEPT !.pc = "b_del", !.c = c,
                                         !.todo = @ \ {e[1]}]
    /\ UNCHANGED <<conns, clients, mu, snd, broadcast, hubcalls, registered, exceptHub>>

\* delete(h.clients, client.UserID) under the read lock: a SendToUser that
\* holds the read lock too may be reading the map, and the runtime may or
\* may not detect it.
RunBroadcastDelete ==
    /\ Live
    /\ run.pc = "b_del"
    /\ clients' = MapDelete(clients, conns[run.c].user)
    /\ \/ UNCHANGED crashed
       \/ /\ \E s \in Senders : snd[s].pc = "lookup"
          /\ crashed' = [by |-> "run",
                         error |-> "concurrent map read and map write"]
    /\ run' = [run EXCEPT !.pc = "b_range", !.c = 0]
    /\ UNCHANGED <<conns, Send, mu, snd, broadcast, hubcalls, registered, exceptHub>>

\* The range is over: h.mu.RUnlock()
RunBroadcastDone ==
    /\ Live
    /\ run.pc = "b_range"
    /\ run.todo \cap MapKeys(clients) = {}
    /\ mu' = [mu EXCEPT !.readers = @ \ {"run"}]
    /\ run' = RunSelect
    /\ UNCHANGED <<conns, Send, clients, snd, broadcast, hubcalls, crashed,
                   registered, exceptHub>>

\* Hub.SendToUser(userID, message) is called by the task s, the first that
\* is free (the tasks are interchangeable).
SendToUser(s, u) ==
    /\ Live
    /\ snd[s].pc = "idle"
    /\ \E i \in DOMAIN SenderOrder :
        /\ SenderOrder[i] = s
        /\ \A j \in 1..(i - 1) : snd[SenderOrder[j]].pc # "idle"
    /\ hubcalls < MaxSends
    /\ hubcalls' = hubcalls + 1
    /\ snd' = [snd EXCEPT ![s] = [pc |-> "rlock", user |-> u, c |-> 0,
                                  msg |-> hubcalls + 1]]
    /\ UNCHANGED <<conns, Send, clients, mu, run, broadcast, crashed,
                   registered, exceptHub>>

\* h.mu.RLock()
SendRLock(s) ==
    /\ Live
    /\ snd[s].pc = "rlock"
    /\ mu.writer = ""
    /\ mu' = [mu EXCEPT !.readers = @ \cup {s}]
    /\ snd' = [snd EXCEPT ![s].pc = "lookup"]
    /\ UNCHANGED <<conns, Send, clients, run, broadcast, hubcalls, crashed,
                   registered, exceptHub>>

\* client, ok := h.clients[userID]; h.mu.RUnlock(); if !ok { return }
SendLookup(s) ==
    /\ Live
    /\ snd[s].pc = "lookup"
    /\ mu' = [mu EXCEPT !.readers = @ \ {s}]
    /\ IF MapGet(clients, snd[s].user) = {}
          THEN snd' = [snd EXCEPT ![s] = NoSend]
          ELSE \E e \in MapGet(clients, snd[s].user) :
                  snd' = [snd EXCEPT ![s].pc = "select", ![s].c = e[2]]
    /\ UNCHANGED <<conns, Send, clients, run, broadcast, hubcalls, crashed,
                   registered, exceptHub>>

\* select { case client.Send <- data: default: close(client.Send) ... }
SendSelect(s) ==
    /\ Live
    /\ snd[s].pc = "select"
    /\ LET c == snd[s].c
       IN  CASE Offer(c) = "panic" ->
                   /\ crashed' = [by |-> s, error |-> "send on closed channel"]
                   /\ UNCHANGED <<Send, snd>>
             [] Offer(c) = "sent" ->
                   /\ Send' = [Send EXCEPT ![c].buf = Append(@, snd[s].msg)]
                   /\ snd' = [snd EXCEPT ![s] = NoSend]
                   /\ UNCHANGED crashed
             [] Offer(c) = "full" ->
                   /\ Close(c, s)
                   /\ snd' = [snd EXCEPT ![s].pc = "lock"]
    /\ UNCHANGED <<conns, clients, mu, run, broadcast, hubcalls, registered, exceptHub>>

\* h.mu.Lock() of SendToUser
SendLock(s) ==
    /\ Live
    /\ snd[s].pc = "lock"
    /\ mu.writer = "" /\ mu.readers = {}
    /\ mu' = [mu EXCEPT !.writer = s]
    /\ snd' = [snd EXCEPT ![s].pc = "delete"]
    /\ UNCHANGED <<conns, Send, clients, run, broadcast, hubcalls, crashed,
                   registered, exceptHub>>

\* delete(h.clients, userID); h.mu.Unlock()
SendDelete(s) ==
    /\ Live
    /\ snd[s].pc = "delete"
    /\ clients' = MapDelete(clients, snd[s].user)
    /\ mu' = [mu EXCEPT !.writer = ""]
    /\ snd' = [snd EXCEPT ![s] = NoSend]
    /\ UNCHANGED <<conns, Send, run, broadcast, hubcalls, crashed, registered, exceptHub>>

\* WritePump: case message, ok := <-c.Send with a message in the queue
WritePump(c) ==
    /\ Live
    /\ conns[c].writer = "run"
    /\ Send[c].buf # <<>>
    /\ Send' = [Send EXCEPT ![c].buf = Tail(@)]
    /\ UNCHANGED <<conns, clients, mu, run, snd, broadcast, hubcalls, crashed,
                   registered, exceptHub>>

\* WritePump: case message, ok := <-c.Send on the closed and drained queue:
\* the close frame is written, WritePump returns and its deferred
\* c.Conn.Close() runs.
WritePumpClosed(c) ==
    /\ Live
    /\ conns[c].writer = "run"
    /\ Send[c].closes > 0 /\ Send[c].buf = <<>>
    /\ conns' = [conns EXCEPT ![c].writer = "done"]
    /\ UNCHANGED <<Send, clients, mu, run, snd, broadcast, hubcalls, crashed,
                   registered, exceptHub>>

\* WritePump takes a message after ReadPump has closed the connection:
\* WriteMessage fails and WritePump returns.
WritePumpError(c) ==
    /\ Live
    /\ conns[c].writer = "run"
    /\ conns[c].st = "gone"
    /\ Send[c].buf # <<>>
    /\ Send' = [Send EXCEPT ![c].buf = Tail(@)]
    /\ conns' = [conns EXCEPT ![c].writer = "done"]
    /\ UNCHANGED <<clients, mu, run, snd, broadcast, hubcalls, crashed,
                   registered, exceptHub>>

\* ------------------------------------------------- SessionService, AuthService

NoCall == [op |-> "", pc |-> "idle", user |-> 0, data |-> <<>>, res |-> "",
           t |-> 0]

\* No session is stored and nobody is online.
SessInit ==
    /\ session = <<>>
    /\ online = {}
    /\ ss = [k \in SessTasks |-> NoCall]
    /\ sesscalls = 0

\* SessionRepository.SetSession: SET session:<user> with an expiration; at is
\* the time of the write
SetSession(u, data, ttl, at) ==
    [i \in (DOMAIN session) \cup {u} |->
        IF i = u THEN [data |-> data, ttl |-> ttl, at |-> at] ELSE session[i]]

\* A task takes a call: calls go to the first free task (they are
\* interchangeable); the number of the call serves as its time.Now().
SessCall(k, op, pc, u) ==
    /\ ss[k].pc = "idle"
    /\ \E i \in DOMAIN SessTaskOrder :
        /\ SessTaskOrder[i] = k
        /\ \A j \in 1..(i - 1) : ss[SessTaskOrder[j]].pc # "idle"
    /\ sesscalls < MaxSessionCalls
    /\ sesscalls' = sesscalls + 1
    /\ ss' = [ss EXCEPT ![k] = [NoCall EXCEPT !.op = op, !.pc = pc, !.user = u,
                                              !.t = sesscalls + 1]]

SessReturn(k, res) == ss' = [ss EXCEPT ![k].pc = "done", ![k].res = res]

\* AuthService.Login, the credentials being right: the session blob is saved
\* for 24 hours.
Login(k, u) ==
    /\ SessCall(k, "Login", "done", u)
    /\ session' = SetSession(u, [last_activity |-> sesscalls + 1], "24h",
                             sesscalls + 1)
    /\ UNCHANGED <<online, exceptSess>>

\* SessionService.CreateSession is called.
CreateSession(k, u) ==
    /\ SessCall(k, "CreateSession", "c_set", u)
    /\ UNCHANGED <<session, online, exceptSess>>

\* CreateSession: sessionRepo.SetSession(ctx, userID, sessionData, s.timeout)
CreateSet(k) ==
    /\ ss[k].pc = "c_set"
    /\ session' = SetSession(ss[k].user,
                             [last_activity |-> ss[k].t, status |-> 1],
                             "timeout", ss[k].t)
    /\ ss' = [ss EXCEPT ![k].pc = "c_sadd"]
    /\ UNCHANGED <<online, sesscalls, exceptSess>>

\* CreateSession: onlineUserRepo.AddOnlineUser; return nil
CreateAddOnline(k) ==
    /\ ss[k].pc = "c_sadd"
    /\ online' = online \cup {ss[k].user}
    /\ SessReturn(k, "OK")
    /\ UNCHANGED <<session, sesscalls, exceptSess>>

\* SessionService.UpdateSessionActivity is called.
UpdateSessionActivity(k, u) ==
    /\ SessCall(k, "UpdateSessionActivity", "u_get", u)
    /\ UNCHANGED <<session, online, exceptSess>>

\* sessionRepo.GetSession: an error, the key being gone, leads into
\* CreateSession
UpdateGet(k) ==
    /\ ss[k].pc = "u_get"
    /\ ss' = IF ss[k].user \in DOMAIN session
                THEN [ss EXCEPT ![k].pc = "u_set",
                                ![k].data = session[ss[k].user].data]
                ELSE [ss EXCEPT ![k].pc = "c_set"]
    /\ UNCHANGED <<session, online, sesscalls, exceptSess>>

\* sessionData["last_activity"] = time.Now().Unix(); SetSession; return nil
UpdateSet(k) ==
    /\ ss[k].pc = "u_set"
    /\ session' = SetSession(ss[k].user,
                             [ss[k].data EXCEPT !.last_activity = ss[k].t],
                             "timeout", ss[k].t)
    /\ SessReturn(k, "OK")
    /\ UNCHANGED <<online, sesscalls, exceptSess>>

\* SessionService.DeleteSession is called.
DeleteSession(k, u) ==
    /\ SessCall(k, "DeleteSession", "d_del", u)
    /\ UNCHANGED <<session, online, exceptSess>>

\* DeleteSession: sessionRepo.DeleteSession
DeleteDel(k) ==
    /\ ss[k].pc = "d_del"
    /\ session' = DelKey(session, ss[k].user)
    /\ ss' = [ss EXCEPT ![k].pc = "d_srem"]
    /\ UNCHANGED <<online, sesscalls, exceptSess>>

\* DeleteSession: onlineUserRepo.RemoveOnlineUser; return nil
DeleteRemoveOnline(k) ==
    /\ ss[k].pc = "d_srem"
    /\ online' = online \ {ss[k].user}
    /\ SessReturn(k, "OK")
    /\ UNCHANGED <<session, sesscalls, exceptSess>>

\* AuthService.Logout: return s.sessionRepo.DeleteSession(ctx, userID)
Logout(k, u) ==
    /\ SessCall(k, "Logout", "done", u)
    /\ session' = DelKey(session, u)
    /\ UNCHANGED <<online, exceptSess>>

\* SessionService.IsOnline: SISMEMBER user:online
IsOnline(k, u) ==
    /\ SessCall(k, "IsOnline", "done", u)
    /\ UNCHANGED <<session, online, exceptSess>>

\* The call has returned and its task takes the next.
SessFinish(k) ==
    /\ ss[k].pc = "done"
    /\ ss' = [ss EXCEPT ![k] = NoCall]
    /\ UNCHANGED <<session, online, sesscalls, exceptSess>>

\* The expiration of a session key elapses: Redis removes the key.
SessionExpire(u) ==
    /\ u \in DOMAIN session
    /\ session' = DelKey(session, u)
    /\ UNCHANGED <<online, ss, sesscalls, exceptSess>>

\* ------------------------------------------- ProcessService.SubscribeEvents

\* What can be published on the event channel: a GameEvent as PublishEvent
\* marshals it, the JSON object {}, JSON whose room_id is a string, and text
\* that is not JSON.
Payloads ==
    { [kind |-> "event", type |-> "game_start"],
      [kind |-> "event", type |-> "game_end"],
      [kind |-> "object", type |-> ""],
      [kind |-> "mistyped", type |-> "game_start"],
      [kind |-> "text", type |-> ""] }

\* json.Unmarshal([]byte(msg.Payload), &event): the event, or nothing on an
\* error
Unmarshal(payload) ==
    IF payload.kind \in {"event", "object"} THEN << [type |-> payload.type] >>
    ELSE <<>>

NoSub == [st |-> "none", from |-> 0, pos |-> 0, ev |-> <<>>, done |-> FALSE,
          why |-> ""]

\* Nothing was published and nobody has subscribed.
SubInit ==
    /\ pubsub = <<>>
    /\ sub = NoSub
    /\ eventChan = [buf |-> <<>>, closed |-> FALSE]
    /\ received = <<>>

\* A client publishes on the event channel.
PublishRaw(payload) ==
    /\ Len(pubsub) < MaxPublished
    /\ pubsub' = Append(pubsub, payload)
    /\ UNCHANGED <<sub, eventChan, received, exceptSub>>

\* SubscribeEvents: Subscribe, make(chan *GameEvent, 100), go func()
SubscribeEvents ==
    /\ sub.st = "none"
    /\ sub' = [sub EXCEPT !.st = "receiving", !.from = Len(pubsub),
                          !.pos = Len(pubsub)]
    /\ UNCHANGED <<pubsub, eventChan, received, exceptSub>>

\* return under defer close(eventChan); defer pubsub.Close()
SubClose(s, why) == [s EXCEPT !.st = "closed", !.why = why, !.ev = <<>>]

\* A message that does not parse ends the goroutine.
StopOnError(s) == SubClose(s, "unmarshal")

\* if err := json.Unmarshal(...); err != nil { log; continue }
SkipOnError(s) == [s EXCEPT !.pos = @ + 1]

\* pubsub.ReceiveMessage(ctx) returns the next message; json.Unmarshal
SubReceive ==
    /\ sub.st = "receiving"
    /\ ~sub.done
    /\ sub.pos < Len(pubsub)
    /\ sub' = IF Unmarshal(pubsub[sub.pos + 1]) = <<>> THEN SkipOnError(sub)
              ELSE [sub EXCEPT !.st = "sending",
                               !.ev = Unmarshal(pubsub[sub.pos + 1])]
    /\ UNCHANGED <<pubsub, eventChan, received, exceptSub>>

\* pubsub.ReceiveMessage(ctx) returns an error: the context is done or the
\* connection is lost.
SubReceiveError ==
    /\ sub.st = "receiving"
    /\ sub' = SubClose(sub, IF sub.done THEN "context" ELSE "receive")
    /\ eventChan' = [eventChan EXCEPT !.closed = TRUE]
    /\ UNCHANGED <<pubsub, received, exceptSub>>

\* select { case eventChan <- &event: ... }
SubSend ==
    /\ sub.st = "sending"
    /\ Len(eventChan.buf) < ChanCap
    /\ eventChan' = [eventChan EXCEPT !.buf = Append(@, sub.ev[1])]
    /\ sub' = [sub EXCEPT !.st = "receiving", !.pos = @ + 1, !.ev = <<>>]
    /\ UNCHANGED <<pubsub, received, exceptSub>>

\* A select whose case <-ctx.Done() is looked at only when the send can go
\* ahead.
SubDoneAfterSend ==
    /\ sub.st = "sending"
    /\ sub.done
    /\ Len(eventChan.buf) < ChanCap
    /\ sub' = SubClose(sub, "context")
    /\ eventChan' = [eventChan EXCEPT !.closed = TRUE]
    /\ UNCHANGED <<pubsub, received, exceptSub>>

\* select { ... case <-ctx.Done(): return }
SubDone ==
    /\ sub.st = "sending"
    /\ sub.done
    /\ sub' = SubClose(sub, "context")
    /\ eventChan' = [eventChan EXCEPT !.closed = TRUE]
    /\ UNCHANGED <<pubsub, received, exceptSub>>

\* The caller cancels the context it subscribed with.
SubCancel ==
    /\ sub.st \in {"receiving", "sending"}
    /\ ~sub.done
    /\ sub' = [sub EXCEPT !.done = TRUE]
    /\ UNCHANGED <<pubsub, eventChan, received, exceptSub>>

\* The caller takes an event from the stream.
SubConsume ==
    /\ eventChan.buf # <<>>
    /\ received' = Append(received, Head(eventChan.buf))
    /\ eventChan' = [eventChan EXCEPT !.buf = Tail(@)]
    /\ UNCHANGED <<pubsub, sub, exceptSub>>

\* ------------------------------------------------------------- specification

\* The service starts on an empty store.
InitStore ==
    /\ rooms = <<>>
    /\ players = <<>>
    /\ hash = <<>>
    /\ pset = <<>>
    /\ lock = <<>>
    /\ events = <<>>
    /\ w = [p \in Workers |-> Idle]
    /\ calls = 0
    /\ emptied = {}

\* The store as CreateRoom by the owner leaves it: the room with its owner
\* as the only member, mirrored in the room hash.
InitCreated ==
    LET code == CHOOSE c \in RoomCodes : TRUE
        u == CHOOSE o \in Owners : TRUE
        row == [NewRoom(1, code, u) EXCEPT !.cur = 1]
    IN  /\ rooms = <<row>>
        /\ players = <<NewPlayer(1, u, 0)>>
        /\ hash = (1 :> RoomData(row))
        /\ pset = <<>>
        /\ lock = <<>>
        /\ events = <<>>
        /\ w = [p \in Workers |-> Idle]
        /\ calls = 0
        /\ emptied = {}

\* The store as CreateRoom by the owner and then JoinRoom by one more user
\* leave it.
InitJoined ==
    LET code == CHOOSE c \in RoomCodes : TRUE
        u == CHOOSE o \in Owners : TRUE
        v == CHOOSE j \in Users \ Owners : TRUE
        row == [NewRoom(1, code, u) EXCEPT !.cur = 2]
    IN  /\ rooms = <<row>>
        /\ players = <<NewPlayer(1, u, 0), NewPlayer(1, v, 1)>>
        /\ hash = (1 :> RoomData(row))
        /\ pset = (1 :> {v})
        /\ lock = <<>>
        /\ events = <<>>
        /\ w = [p \in Workers |-> Idle]
        /\ calls = 0
        /\ emptied = {}

\* The store as CreateRoom and then a JoinRoom whose two mirror writes failed
\* leave it: the hash still has the occupancy CreateRoom wrote.
InitStale ==
    LET code == CHOOSE c \in RoomCodes : TRUE
        u == CHOOSE o \in Owners : TRUE
        v == CHOOSE j \in Users \ Owners : TRUE
        row == [NewRoom(1, code, u) EXCEPT !.cur = 2]
    IN  /\ rooms = <<row>>
        /\ players = <<NewPlayer(1, u, 0), NewPlayer(1, v, 1)>>
        /\ hash = (1 :> RoomData([row EXCEPT !.cur = 1]))
        /\ pset = <<>>
        /\ lock = <<>>
        /\ events = <<>>
        /\ w = [p \in Workers |-> Idle]
        /\ calls = 0
        /\ emptied = {}

\* A run starts with no call in flight, on an empty store or on a room made
\* by earlier calls.
\* ------------------------------------------------------------- lock keys

\* A room id is a uint: kept as hi * 2^31 + lo with lo < 2^31, so that the
\* ids of the whole 64-bit range can be written.
UintId(hi, lo) == [hi |-> hi, lo |-> lo]

\* rune(roomID): the low 32 bits of the id, read as a signed number.
Rune(id) == IF id.hi % 2 = 1 THEN (id.lo - MaxInt32) - 1 ELSE id.lo

\* The lock key of a call of operation op on the room: JoinRoom names the
\* room by its code, the others by its id.
OpLockKey(op, room) ==
    CASE op = "JoinRoom" -> JoinLockKey(room.code)
      [] op = "LeaveRoom" -> LeaveLockKey(Rune(room.id))
      [] op \in {"StartGame", "EndGame"} -> GameLockKey(Rune(room.id))

OpLockTTL(op) ==
    IF op \in {"JoinRoom", "LeaveRoom"} THEN RoomLockTTL ELSE GameLockTTL

\* The ids two rooms are drawn from: small ones, the ends of the surrogate
\* range, the replacement character, the ends of the code points, and ids
\* of 2^31 and more.
SampleIds ==
    { UintId(0, 1), UintId(0, 2),
      UintId(0, SurrogateMin - 1), UintId(0, SurrogateMin),
      UintId(0, SurrogateMax), UintId(0, SurrogateMax + 1),
      UintId(0, RuneError), UintId(0, MaxRune), UintId(0, MaxRune + 1),
      UintId(1, 0), UintId(2, 1) }

\* Codes as generateRoomCode makes them.
SampleCodes ==
    { <<48, 48, 48, 48, 48, 48, 48, 49>>, <<48, 48, 48, 48, 48, 48, 48, 50>> }

NoAttempt == [room |-> 0, op |-> "", key |-> NoKey, ok |-> TRUE, holder |-> 0]
NoProbe == [rooms |-> <<>>, last |-> NoAttempt]

KeysInit == probe = NoProbe

\* Two rows of the rooms table: the primary key and the unique index on
\* room_code make their ids and their codes differ.
InitKeys ==
    /\ env = "keys"
    /\ InitStore
    /\ HubInit /\ SessInit /\ SubInit
    /\ \E a, b \in SampleIds : \E c, d \in SampleCodes :
        /\ a # b
        /\ c # d
        /\ probe = [rooms |-> <<[id |-> a, code |-> c], [id |-> b, code |-> d]>>,
                    last |-> NoAttempt]

\* A call of operation op on room i of the two reaches its AcquireLock; the
\* key remembers the room it was set for.
KeyAcquire(i, op) ==
    LET k == OpLockKey(op, probe.rooms[i])
        r == SetNX(k, OpLockTTL(op), i)
    IN  /\ lock' = r.lock
        /\ probe' = [probe EXCEPT !.last =
                        [room |-> i, op |-> op, key |-> k, ok |-> r.ok,
                         holder |-> IF r.ok THEN i ELSE lock[k].by]]
        /\ UNCHANGED <<rooms, players, hash, pset, events, w, calls, env,
                       emptied, hubVars, sessVars, subVars>>

\* The call that acquired the key returns: its deferred ReleaseLock.
KeyRelease(i, op) ==
    LET k == OpLockKey(op, probe.rooms[i])
    IN  /\ k \in DOMAIN lock
        /\ lock[k].by = i
        /\ lock' = DelKey(lock, k)
        /\ UNCHANGED <<rooms, players, hash, pset, events, w, calls, env,
                       emptied, otherVars>>

NextKeys ==
    \/ \E i \in 1..2 : \E op \in {"JoinRoom", "LeaveRoom", "StartGame", "EndGame"} :
        KeyAcquire(i, op)
    \/ \E i \in 1..2 : \E op \in {"JoinRoom", "LeaveRoom", "StartGame", "EndGame"} :
        KeyRelease(i, op)
    \/ \E k \in DOMAIN lock : Expire(k)

SpecKeys == InitKeys /\ [][NextKeys]_vars

\* The other components of the process as they start.
OthersInit == HubInit /\ SessInit /\ SubInit /\ KeysInit

InitStates == InitStore \/ InitCreated \/ InitJoined

\* Store and Redis answer every call, and no request is cancelled.
Init == env = "reliable" /\ InitStates /\ OthersInit

\* Store and Redis may fail any call, and may have failed calls before.
InitFaults == env = "faulty" /\ (InitStates \/ InitStale) /\ OthersInit

\* Clients may go away while their request runs.
InitCancel == env = "cancelling" /\ InitStates /\ OthersInit

Step(p) ==
    \/ \E u \in Owners : CreateInsert(p, u)
    \/ CreateMember(p)
    \/ CreateUpdate(p)
    \/ CreateSync(p)
    \/ \E u \in Users, code \in RoomCodes : JoinAcquire(p, u, code)
    \/ JoinRead(p)
    \/ JoinExisting(p)
    \/ JoinPlayers(p)
    \/ JoinCreate(p)
    \/ JoinUpdate(p)
    \/ JoinSync(p)
    \/ JoinAddPlayer(p)
    \/ \E u \in Users, id \in RoomArgs : LeaveAcquire(p, u, id)
    \/ LeaveRead(p)
    \/ LeaveMark(p)
    \/ LeaveUpdate(p)
    \/ LeaveDelete(p)
    \/ LeaveDeleteCache(p)
    \/ LeaveSync(p)
    \/ LeaveRemovePlayer(p)
    \/ \E id \in RoomArgs : GetRoom(p, id)
    \/ \E id \in RoomArgs : StartAcquire(p, id)
    \/ StartRead(p)
    \/ StartUpdate(p)
    \/ StartSetState(p)
    \/ StartPublish(p)
    \/ \E id \in RoomArgs : EndAcquire(p, id)
    \/ EndRead(p)
    \/ EndUpdate(p)
    \/ EndSetState(p)
    \/ EndPublish(p)
    \/ ReleaseLock(p)
    \/ Finish(p)

Next ==
    \/ \E p \in Workers : Step(p)
    \/ \E k \in DOMAIN lock : Expire(k)

\* With failing calls, also the step that only a failed call leads to.
NextFaults ==
    \/ Next
    \/ \E p \in Workers : CreateRollback(p)

\* With requests that are cancelled while their call runs.
NextCancel ==
    \/ Next
    \/ \E p \in Workers : CreateRollback(p)
    \/ \E p \in Workers : Cancel(p)

\* The scenario: each call starts when the one before it has returned.
InitScenario == env = "scenario" /\ InitStore /\ OthersInit

ScenarioCall(p) ==
    /\ \A q \in Workers : w[q].pc \in {"idle", "done"}
    /\ calls < Len(Scenario)
    /\ LET s == Scenario[calls + 1]
           id == Len(rooms)
       IN  \/ s.op = "CreateRoom" /\ CreateInsert(p, s.user)
           \/ s.op = "JoinRoom" /\ JoinAcquire(p, s.user, rooms[id].code)
           \/ s.op = "LeaveRoom" /\ LeaveAcquire(p, s.user, id)
           \/ s.op = "StartGame" /\ StartAcquire(p, id)
           \/ s.op = "EndGame" /\ EndAcquire(p, id)

ScenarioStep(p) ==
    \/ ScenarioCall(p)
    \/ CreateMember(p)
    \/ CreateUpdate(p)
    \/ CreateSync(p)
    \/ JoinRead(p)
    \/ JoinExisting(p)
    \/ JoinPlayers(p)
    \/ JoinCreate(p)
    \/ JoinUpdate(p)
    \/ JoinSync(p)
    \/ JoinAddPlayer(p)
    \/ LeaveRead(p)
    \/ LeaveMark(p)
    \/ LeaveUpdate(p)
    \/ LeaveSync(p)
    \/ LeaveRemovePlayer(p)
    \/ StartRead(p)
    \/ StartUpdate(p)
    \/ StartSetState(p)
    \/ StartPublish(p)
    \/ EndRead(p)
    \/ EndUpdate(p)
    \/ EndSetState(p)
    \/ EndPublish(p)
    \/ ReleaseLock(p)
    \/ Finish(p)

NextScenario ==
    \/ \E p \in Workers : ScenarioStep(p)
    \/ \E k \in DOMAIN lock : Expire(k)

Spec == Init /\ [][Next]_vars

SpecScenario == InitScenario /\ [][NextScenario]_vars

\* ---- ProcessService.UpdateGameState, GetGameState

\* The patches a caller passes as `data`: none, an auxiliary field, and
\* fields the hash already has.
Patches ==
    { <<>>, [round |-> 1], [game_state |-> GameStateFinished],
      [status |-> RoomStatusFinished] }

\* roomData: game_state, then the entries of data copied over it.
StateData(state, data) ==
    [f \in {"game_state"} \cup DOMAIN data |->
        IF f \in DOMAIN data THEN data[f] ELSE state]

\* UpdateGameState(ctx, roomID, state, data): HSET room:<id> with roomData,
\* and the error of the HSET returned; state and data are kept as history
UpdateGameState(p, id, state, data) ==
    /\ Free(p)
    /\ \E ok \in IO(p) :
        LET c == [Begin(p, "UpdateGameState", 0, id, <<>>, NoKey)
                     EXCEPT !.state = state, !.data = data]
        IN  /\ hash' = IF ok THEN HSet(id, StateData(state, data)) ELSE hash
            /\ Set(p, Reject(MirrorWrite(c, ok),
                             IF ok THEN "OK" ELSE "Internal"))
    /\ calls' = calls + 1
    /\ UNCHANGED <<rooms, players, pset, lock, events, emptied, env,
                   otherVars>>

\* GetGameState(ctx, roomID): HGETALL room:<id>, the fields of the hash (none
\* for a key that does not exist) or the error
GetGameState(p, id) ==
    /\ Free(p)
    /\ \E ok \in IO(p) :
        LET c == Begin(p, "GetGameState", 0, id, <<>>, NoKey)
            all == IF id \in DOMAIN hash THEN hash[id] ELSE <<>>
        IN  Set(p, IF ok THEN [Reject(c, "OK") EXCEPT !.got = all]
                         ELSE Reject(c, "Internal"))
    /\ calls' = calls + 1
    /\ UNCHANGED <<rooms, players, hash, pset, lock, events, emptied, env,
                   otherVars>>

\* The room operations together with UpdateGameState and GetGameState.
NextState ==
    \/ Next
    \/ \E p \in Workers, id \in RoomArgs, data \in Patches :
           UpdateGameState(p, id, GameStatePlaying, data)
    \/ \E p \in Workers, id \in RoomArgs : GetGameState(p, id)

SpecState == Init /\ [][NextState]_vars

\* The hub alone: connections come and go while tasks send and broadcast.
InitHub ==
    env = "hub" /\ InitStore /\ (HubInit \/ HubSlow) /\ SessInit /\ SubInit
    /\ KeysInit

NextHub ==
    \/ \E c \in Conns, u \in HubUsers : RunRegister(c, u)
    \/ RunLock
    \/ RunRegisterSet
    \/ \E c \in Conns : RunUnregister(c)
    \/ RunUnregisterDelete
    \/ Broadcast
    \/ RunBroadcast
    \/ RunBroadcastRLock
    \/ \E e \in clients : RunBroadcastSend(e)
    \/ RunBroadcastDelete
    \/ RunBroadcastDone
    \/ \E s \in Senders, u \in HubUsers : SendToUser(s, u)
    \/ \E s \in Senders : SendRLock(s)
    \/ \E s \in Senders : SendLookup(s)
    \/ \E s \in Senders : SendSelect(s)
    \/ \E s \in Senders : SendLock(s)
    \/ \E s \in Senders : SendDelete(s)
    \/ \E c \in Conns : WritePump(c)

SpecHub == InitHub /\ [][NextHub]_vars

\* The hub with the tasks of its connections: handlers that wait to
\* register, readers that wait to unregister, writers that end.
NextPumps ==
    \/ NextHub
    \/ \E c \in Conns, u \in HubUsers : HandleWebSocket(c, u)
    \/ \E c \in Conns : RunRegisterWaiting(c)
    \/ \E c \in Conns : ReadPumpExit(c)
    \/ \E c \in Conns : WritePumpClosed(c)
    \/ \E c \in Conns : WritePumpError(c)

\* A step of Hub.Run past its select, which it takes as soon as the mutex
\* lets it.
RunStep ==
    \/ RunLock
    \/ RunRegisterSet
    \/ RunUnregisterDelete
    \/ RunBroadcastRLock
    \/ \E e \in clients : RunBroadcastSend(e)
    \/ RunBroadcastDelete
    \/ RunBroadcastDone

\* A step of the SendToUser call of task s.
SendStep(s) ==
    SendRLock(s) \/ SendLookup(s) \/ SendSelect(s) \/ SendLock(s) \/ SendDelete(s)

\* The reader of a connection that the writer has closed: its ReadMessage
\* fails.
ReadPumpClosed(c) == conns[c].writer = "done" /\ ReadPumpExit(c)

\* The select of Hub.Run takes a waiting reader's client.
RunUnregisterWaiting(c) == conns[c].st = "leaving" /\ RunUnregister(c)

\* The scheduler runs every goroutine that can take a step; the select of
\* Hub.Run chooses among its ready cases at random, so that a case that is
\* ready again and again is taken.
SpecPumps ==
    /\ InitHub
    /\ [][NextPumps]_vars
    /\ WF_vars(RunStep)
    /\ \A s \in Senders : WF_vars(SendStep(s))
    /\ \A c \in Conns : WF_vars(WritePump(c) \/ WritePumpClosed(c))
    /\ \A c \in Conns : WF_vars(ReadPumpClosed(c))
    /\ \A c \in Conns : SF_vars(RunRegisterWaiting(c))
    /\ \A c \in Conns : SF_vars(RunUnregisterWaiting(c))
    /\ SF_vars(RunBroadcast)

\* The sessions alone: users log in and out, sessions are created, refreshed
\* and deleted, and session keys expire.
InitSession == env = "session" /\ InitStore /\ OthersInit

NextSession ==
    \/ \E k \in SessTasks, u \in SessUsers :
        \/ Login(k, u)
        \/ CreateSession(k, u)
        \/ UpdateSessionActivity(k, u)
        \/ DeleteSession(k, u)
        \/ Logout(k, u)
        \/ IsOnline(k, u)
    \/ \E k \in SessTasks :
        \/ CreateSet(k)
        \/ CreateAddOnline(k)
        \/ UpdateGet(k)
        \/ UpdateSet(k)
        \/ DeleteDel(k)
        \/ DeleteRemoveOnline(k)
        \/ SessFinish(k)
    \/ \E u \in SessUsers : SessionExpire(u)

SpecSession == InitSession /\ [][NextSession]_vars

\* The event subscription alone.  The subscriber goroutine and the caller
\* reading the stream keep running.
InitSub == env = "events" /\ InitStore /\ OthersInit

NextSub ==
    \/ \E payload \in Payloads : PublishRaw(payload)
    \/ SubscribeEvents
    \/ SubReceive
    \/ SubReceiveError
    \/ SubSend
    \/ SubDone
    \/ SubCancel
    \/ SubConsume

SpecSub ==
    /\ InitSub
    /\ [][NextSub]_vars
    /\ WF_vars(SubReceive)
    /\ WF_vars(SubSend)
    /\ WF_vars(SubConsume)

\* The goroutine under a cancelled context: ReceiveMessage(ctx) returns the
\* context's error, the select finds ctx.Done() ready.
SubEnd == sub.done /\ (SubReceiveError \/ SubDone)

\* The subscription whose caller may stop reading the stream: the goroutine
\* is scheduled, the caller need not take anything.
SpecUnread ==
    /\ InitSub
    /\ [][NextSub]_vars
    /\ WF_vars(SubReceive)
    /\ WF_vars(SubSend)
    /\ WF_vars(SubEnd)

SpecFaults == InitFaults /\ [][NextFaults]_vars

SpecCancel == InitCancel /\ [][NextCancel]_vars

\* ------------------------------------------------------------- properties

\* The call of worker p is between its lock acquisition and its release.
InCritical(p) == w[p].held /\ w[p].pc \notin {"idle", "done"}

\* The live room the call of worker p names: JoinRoom by code, the others by id.
Target(p) ==
    IF w[p].op = "JoinRoom" THEN GetByRoomCode(w[p].code) ELSE GetByID(w[p].room)

\* The lock key of the call of worker p is in Redis as that call set it.
HoldsKey(p) == w[p].key \in DOMAIN lock /\ lock[w[p].key].by = w[p].t

\* The step is worker p's AcquireLock.
AcquireStep(p) == w[p].pc = "idle" /\ w'[p].pc # "idle" /\ w'[p].key # NoKey

\* The call numbered t has returned.
Returned(t) == \A q \in Workers : w[q].t # t

\* C1: the occupancy a live room records equals the number of its active
\* memberships; stated where no call is in flight, so that no handler is
\* between its membership write and its occupancy write.
C1_OccupancyIsMembershipCount ==
    Quiet => \A i \in RoomIds :
                ~rooms[i].deleted => rooms[i].cur = Cardinality(ActiveRows(i))

\* C2: no two calls of JoinRoom, LeaveRoom, StartGame or EndGame on the same
\* room are between lock acquisition and release at the same time.
C2_MutualExclusion ==
    \A p, q \in Workers :
        ~ /\ p # q
          /\ InCritical(p)
          /\ InCritical(q)
          /\ Target(p) # NoRoom
          /\ Target(q) # NoRoom
          /\ Target(p)[1].id = Target(q)[1].id

\* The JoinRoom call of worker p has inserted its membership row; from there
\* it returns the room on every path.
JoinInserted(p) ==
    w[p].op = "JoinRoom" /\ w[p].pc \in {"j_update", "j_sync", "j_sadd"}

\* The occupancy that call read before it went on.
JoinSeen(p) == IF w[p].pc = "j_update" THEN w[p].r[1].cur ELSE w[p].r[1].cur - 1

\* C3: of two JoinRoom calls by different users that both found the last free
\* seat of a room, at most one gets to join; and no room's occupancy exceeds
\* its max_players.
C3_OneJoinTakesLastSeat ==
    /\ \A p, q \in Workers :
        ~ /\ p # q
          /\ JoinInserted(p)
          /\ JoinInserted(q)
          /\ w[p].room = w[q].room
          /\ w[p].user # w[q].user
          /\ JoinSeen(p) = w[p].r[1].max - 1
          /\ JoinSeen(q) = w[q].r[1].max - 1
    /\ \A i \in RoomIds : rooms[i].cur <= rooms[i].max

\* C4: AcquireLock is one step that always can be taken; on a key that is
\* held and not expired it reports not-acquired and leaves every lock key with
\* its marker and expiration as they were; on a key that is absent (never set,
\* released or expired) it reports acquired and sets the key with the
\* expiration asked for, leaving the other keys alone.
C4_AcquireLock ==
    /\ [](\A p \in Workers : Free(p) =>
            /\ \A u \in Users, code \in RoomCodes : ENABLED JoinAcquire(p, u, code)
            /\ \A id \in RoomArgs : ENABLED StartAcquire(p, id))
    /\ [][\A p \in Workers : AcquireStep(p) =>
            LET k == w'[p].key
            IN  IF k \in DOMAIN lock
                THEN ~w'[p].held /\ lock' = lock
                ELSE /\ w'[p].held
                     /\ DOMAIN lock' = (DOMAIN lock) \cup {k}
                     /\ lock'[k] = [value |-> "1",
                                    ttl |-> IF w'[p].op \in {"StartGame", "EndGame"}
                                            THEN GameLockTTL ELSE RoomLockTTL,
                                    by |-> w'[p].t]
                     /\ \A j \in DOMAIN lock : lock'[j] = lock[j]]_vars

\* Two calls are in their critical sections under the same key: the second
\* acquired it after the first one's key expired.
C4_AcquiredAfterExpiry ==
    \E p, q \in Workers :
        /\ p # q
        /\ InCritical(p)
        /\ InCritical(q)
        /\ w[p].key = w[q].key
        /\ HoldsKey(q)

\* C5: a JoinRoom, LeaveRoom, StartGame or EndGame call that acquired its lock
\* and has returned, with whatever result, no longer holds the key.
C5_ReleasedByReturn ==
    \A p \in Workers : w[p].pc = "done" /\ w[p].held => ~HoldsKey(p)

\* C6: a call whose request was cancelled while it held its lock has the lock
\* key removed by the time it returns.
C6_ReleasedOnCancel ==
    \A p \in Workers :
        w[p].pc = "done" /\ w[p].held /\ w[p].cancelled => ~HoldsKey(p)

\* C7: a call that finds its lock key held returns Conflict from its single
\* AcquireLock step: no retry, no release, and the store, the mirror, the
\* events and every lock key stay as they were.
C7_ConflictWithoutWrite ==
    [][\A p \in Workers : AcquireStep(p) /\ w'[p].key \in DOMAIN lock =>
            /\ w'[p].pc = "done"
            /\ w'[p].res = "Conflict"
            /\ ~w'[p].held
            /\ calls' = calls + 1
            /\ UNCHANGED <<rooms, players, hash, pset, events, lock>>]_vars

\* A call has returned Conflict without the lock while another call's key is
\* still in place.
C7_RejectedWhileHeld ==
    \E p \in Workers :
        /\ w[p].pc = "done"
        /\ w[p].res = "Conflict"
        /\ ~w[p].held
        /\ w[p].key \in DOMAIN lock
        /\ lock[w[p].key].by # w[p].t
        /\ rooms # <<>>

\* C8: a call whose AcquireLock returns an error returns Internal from that
\* step, and the store, the mirror, the events and every lock key stay as they
\* were.
C8_InternalWithoutWrite ==
    [][\A p \in Workers : AcquireStep(p) /\ w'[p].lockErr =>
            /\ w'[p].pc = "done"
            /\ w'[p].res = "Internal"
            /\ ~w'[p].held
            /\ UNCHANGED <<rooms, players, hash, pset, events, lock>>]_vars

\* A call on an existing room has returned Internal because its AcquireLock
\* failed.
C8_AcquireErrored ==
    \E p \in Workers :
        /\ w[p].pc = "done"
        /\ w[p].lockErr
        /\ w[p].res = "Internal"
        /\ GetByID(1) # NoRoom

\* C9: once a LeaveRoom call that brought a room's occupancy to zero has
\* returned, the room has no live row, so that GetRoom answers NotFound.
C9_EmptiedRoomIsGone ==
    \A e \in emptied : Returned(e.t) => GetByID(e.room) = NoRoom

\* The StartGame call of worker p is about to read a room that is not Waiting.
StartOnStarted(p) ==
    /\ w[p].op = "StartGame"
    /\ w[p].pc = "s_read"
    /\ GetByID(w[p].room) # NoRoom
    /\ GetByID(w[p].room)[1].status \in
           {RoomStatusPlaying, RoomStatusFinished, RoomStatusCancelled}

\* C10: StartGame on a room that is Playing, Finished or Cancelled returns
\* Conflict, and neither its read nor anything it does afterwards changes the
\* room's row, the mirror or the events.  The status check gives Conflict for
\* each of the three statuses.
C10_StartRejected ==
    /\ [](\A p \in Workers, i \in RoomIds :
            \A st \in {RoomStatusPlaying, RoomStatusFinished, RoomStatusCancelled} :
                StartChecks(w[p], <<[rooms[i] EXCEPT !.status = st]>>)
                    = Exit(w[p], "Conflict"))
    /\ [][\A p \in Workers :
            /\ StartOnStarted(p) /\ w'[p] # w[p] =>
                /\ w'[p].pc = "release"
                /\ w'[p].res = "Conflict"
                /\ UNCHANGED <<rooms, players, hash, pset, events>>
            /\ w[p].op = "StartGame" /\ w[p].res = "Conflict" /\ w'[p] # w[p] =>
                UNCHANGED <<rooms, players, hash, pset, events>>]_vars

\* A StartGame call was turned away with Conflict from a room that an earlier
\* call had started: the room still carries that call's start time, and the
\* only event is that call's.
C10_SecondStartRejected ==
    \E p \in Workers :
        /\ w[p].op = "StartGame"
        /\ w[p].pc = "done"
        /\ w[p].res = "Conflict"
        /\ w[p].held
        /\ GetByID(w[p].room) # NoRoom
        /\ GetByID(w[p].room)[1].status = RoomStatusPlaying
        /\ GetByID(w[p].room)[1].started \notin {0, w[p].t}
        /\ w[p].room \in DOMAIN hash
        /\ "started_at" \in DOMAIN hash[w[p].room]
        /\ hash[w[p].room].started_at = GetByID(w[p].room)[1].started
        /\ Len(events) = 1
        /\ events[1].by # w[p].t

\* C11: every change of a room's status is Waiting -> Playing,
\* Playing -> Finished or Waiting -> Cancelled.
C11_StatusMovesForward ==
    [][\A i \in RoomIds :
        rooms'[i].status # rooms[i].status =>
            <<rooms[i].status, rooms'[i].status>> \in
                {<<RoomStatusWaiting, RoomStatusPlaying>>,
                 <<RoomStatusPlaying, RoomStatusFinished>>,
                 <<RoomStatusWaiting, RoomStatusCancelled>>}]_vars

\* The step is a step of the JoinRoom call of worker p from position pc.
JoinStepAt(p, pc) ==
    w[p].op = "JoinRoom" /\ w[p].pc = pc /\ w'[p] # w[p]

\* C12: JoinRoom returns NotFound when no live room has the code, and Conflict
\* when the room read is not Waiting, when its occupancy is at capacity, and
\* when the user has an active membership in it; the rejecting step and every
\* later step of the rejected call leave store and mirror unchanged.
C12_JoinRejected ==
    [][\A p \in Workers :
        LET got == GetByRoomCode(w[p].code)
            rejected(res) ==
                /\ w'[p].pc = "release"
                /\ w'[p].res = res
                /\ UNCHANGED <<rooms, players, hash, pset>>
        IN  /\ JoinStepAt(p, "j_read") /\ got = NoRoom => rejected("NotFound")
            /\ JoinStepAt(p, "j_read") /\ got # NoRoom =>
                /\ got[1].status # RoomStatusWaiting => rejected("Conflict")
                /\ got[1].cur >= got[1].max => rejected("Conflict")
            /\ /\ JoinStepAt(p, "j_existing")
               /\ GetByRoomIDAndUserID(w[p].room, w[p].user) # {}
               => rejected("Conflict")
            /\ /\ w[p].op = "JoinRoom"
               /\ w[p].res \in {"NotFound", "Conflict"}
               /\ w'[p] # w[p]
               => UNCHANGED <<rooms, players, hash, pset>>]_vars

\* A JoinRoom call by a user who is an active member of a Waiting room with a
\* free seat has returned Conflict.
C12_MemberRejected ==
    \E p \in Workers :
        /\ w[p].op = "JoinRoom"
        /\ w[p].pc = "done"
        /\ w[p].res = "Conflict"
        /\ w[p].held
        /\ GetByRoomCode(w[p].code) # NoRoom
        /\ GetByRoomCode(w[p].code)[1].status = RoomStatusWaiting
        /\ GetByRoomCode(w[p].code)[1].cur < GetByRoomCode(w[p].code)[1].max
        /\ GetByRoomIDAndUserID(GetByRoomCode(w[p].code)[1].id, w[p].user) # {}

\* C13: no user has two active memberships in one room.
C13_OneActiveMembership ==
    \A i \in RoomIds, u \in Users : Cardinality(GetByRoomIDAndUserID(i, u)) <= 1

\* C14: the active memberships of one room have pairwise distinct seats.
C14_DistinctSeats ==
    \A i \in RoomIds : \A a, b \in ActiveRows(i) :
        a # b => players[a].pos # players[b].pos

\* The call of worker p has returned from operation op.
ReturnedFrom(p, op) == w[p].pc = "done" /\ w[p].op = op

\* The step is the one in which the call of worker p returns from op.
Returns(p, op) == w[p].pc # "done" /\ w'[p].pc = "done" /\ w'[p].op = op

\* The store holds the room of the CreateRoom call of worker p as Waiting with
\* occupancy 1 and one active membership, the owner's at seat 0.
CreatedAlone(p) ==
    /\ GetByID(w[p].room) # NoRoom
    /\ GetByID(w[p].room)[1].status = RoomStatusWaiting
    /\ GetByID(w[p].room)[1].cur = 1
    /\ Cardinality(ActiveRows(w[p].room)) = 1
    /\ \A a \in ActiveRows(w[p].room) :
        players[a].user = w[p].user /\ players[a].pos = 0

\* C15: at the return of a successful CreateRoom the store holds its room as
\* Waiting with occupancy 1 and exactly one active membership of it, the
\* owner's at seat 0.
C15_CreatedRoom ==
    [][\A p \in Workers :
        Returns(p, "CreateRoom") /\ w'[p].res = "OK" => CreatedAlone(p)']_vars

\* The room row the CreateRoom call of worker p inserted is gone unless the
\* call returned success, and if it is there it has its owner membership and
\* its mirror hash.
AllOrNothing(p) ==
    /\ w[p].res # "OK" => GetByID(w[p].room) = NoRoom
    /\ GetByID(w[p].room) # NoRoom =>
        /\ GetByRoomIDAndUserID(w[p].room, w[p].user) # {}
        /\ w[p].room \in DOMAIN hash

\* C16: at the return of a CreateRoom that inserted its room row, the room is
\* in the store only if the call returned success and wrote both the owner
\* membership and the mirror.
C16_CreateAllOrNothing ==
    [][\A p \in Workers :
        Returns(p, "CreateRoom") /\ w'[p].room # 0 => AllOrNothing(p)']_vars

\* C17: a call of which a store write failed does not return success.
C17_StoreFailureSurfaces ==
    \A p \in Workers : w[p].pc = "done" /\ w[p].wfail => w[p].res # "OK"

\* The room hash of room i agrees with its row: no hash for a room that is
\* gone, otherwise the row's status and occupancy.
MirrorAgrees(i) ==
    IF GetByID(i) = NoRoom
    THEN i \notin DOMAIN hash
    ELSE /\ i \in DOMAIN hash
         /\ hash[i].status = rooms[i].status
         /\ hash[i].current_players = rooms[i].cur

LockingOps == {"JoinRoom", "LeaveRoom", "StartGame", "EndGame"}

\* The positions of a call at which its next step is a write to the mirror.
MirrorSteps ==
    {"j_sync", "j_sadd", "l_delcache", "l_sync", "l_srem", "s_hset", "e_hset"}

\* C18: a JoinRoom, LeaveRoom, StartGame or EndGame call whose store writes
\* succeeded and of which a mirror write failed returns success; its mirror
\* writes, failed or not, leave the store alone; and when such a call returns
\* success with none of its writes failed, the room's hash agrees with the
\* room's row.
C18_MirrorBestEffortAndHealing ==
    /\ [](\A p \in Workers :
            w[p].pc = "done" /\ w[p].op \in LockingOps /\ w[p].cfail /\ ~w[p].wfail
                => w[p].res = "OK")
    /\ [][\A p \in Workers :
            /\ w[p].pc \in MirrorSteps /\ w'[p] # w[p] => UNCHANGED <<rooms, players>>
            /\ /\ \E op \in LockingOps : Returns(p, op)
               /\ w'[p].res = "OK"
               /\ ~w'[p].wfail
               /\ ~w'[p].cfail
               => MirrorAgrees(w[p].room)']_vars

\* C19: the event of a StartGame or EndGame call is on the channel only after
\* the call's store write and mirror write, and only once the call has
\* released its lock.
C19_PublishAfterRelease ==
    \A p \in Workers : \A i \in 1..Len(events) :
        events[i].by = w[p].t =>
            /\ w[p].pc \notin {"s_read", "s_update", "s_hset",
                               "e_read", "e_update", "e_hset"}
            /\ ~InCritical(p)

\* What the scenario's calls return, in their order.
ScenarioResults == <<"OK", "OK", "Conflict", "OK", "OK", "OK">>

\* The game events of the given type on the channel.
EventsOf(type) == { i \in 1..Len(events) : events[i].type = type }

\* C20: in the scenario CreateRoom(1), JoinRoom(2), JoinRoom(3), LeaveRoom(2),
\* StartGame, EndGame on a service with max_players 2, each call returns what
\* the scenario says (the second join Conflict, the others success), and once
\* the k-th call has returned the room has occupancy 1, 2, 2, 1 for k = 1..4,
\* is Playing with one game_start event and no game_end for k = 5, and is
\* Finished with one game_start and one game_end event for k = 6.
C20_Scenario ==
    (\A p \in Workers : w[p].pc \in {"idle", "done"}) /\ calls >= 1 =>
            /\ \A p \in Workers :
                   w[p].pc = "done" => w[p].res = ScenarioResults[w[p].t]
            /\ GetByID(1) # NoRoom
            /\ rooms[1].max = 2
            /\ rooms[1].cur = <<1, 2, 2, 1, 1, 1>>[calls]
            /\ rooms[1].status = <<RoomStatusWaiting, RoomStatusWaiting,
                                   RoomStatusWaiting, RoomStatusWaiting,
                                   RoomStatusPlaying, RoomStatusFinished>>[calls]
            /\ Cardinality(EventsOf("game_start")) = (IF calls >= 5 THEN 1 ELSE 0)
            /\ Cardinality(EventsOf("game_end")) = (IF calls >= 6 THEN 1 ELSE 0)

\* The last call of the scenario has returned.
C20_ScenarioDone ==
    \E p \in Workers :
        /\ calls = Len(Scenario)
        /\ ReturnedFrom(p, "EndGame")
        /\ w[p].res = "OK"
        /\ rooms[1].status = RoomStatusFinished
        /\ Len(events) = 2

\* ---- websocket.Hub

\* The positions in the registration history of the connections of user u.
RegisteredOf(u) == { i \in DOMAIN registered : conns[registered[i]].user = u }

\* The connection of user u that Hub.Run registered last.
LastRegistered(u) ==
    registered[CHOOSE i \in RegisteredOf(u) : \A j \in RegisteredOf(u) : j <= i]

\* C21: the registry holds at most one entry per user, an entry of a user is
\* that of the connection of the user registered last, and the register step
\* of Hub.Run leaves the registered connection as the entry of its user.
C21_LastConnectionWins ==
    /\ [](\A u \in HubUsers :
            /\ Cardinality(MapGet(clients, u)) <= 1
            /\ \A e \in MapGet(clients, u) :
                   RegisteredOf(u) # {} /\ e[2] = LastRegistered(u))
    /\ [][run.pc = "r_set" /\ run'.pc # "r_set" =>
            MapGet(clients', conns[run.c].user) = { <<conns[run.c].user, run.c>> }]_vars

\* Two connections of one user have been registered and the entry is the later.
C21_Reconnected ==
    \E i, j \in DOMAIN registered :
        /\ i < j
        /\ conns[registered[i]].user = conns[registered[j]].user
        /\ <<conns[registered[j]].user, registered[j]>> \in clients

\* The connection c is the entry of its user.
Registered(c) == <<conns[c].user, c>> \in clients

\* The outbound queue of c has no room.
Full(c) == Len(Send[c].buf) >= QueueCap

\* The step is the select of the SendToUser call of s on the queue of its client.
SendAttempt(s) ==
    /\ snd[s].pc = "select"
    /\ snd'[s] # snd[s] \/ (crashed'.by = s /\ crashed.by = "")

\* The step is the select of Hub.Run's broadcast on the queue of c.
BroadcastAttempt(c) ==
    /\ run.pc = "b_range"
    /\ Registered(c) /\ conns[c].user \in run.todo
    /\ \/ run' # run /\ conns[c].user \notin run'.todo
       \/ crashed'.by = "run" /\ crashed.by = "" /\ Offer(c) = "panic"

\* What a delivery attempt of the message m on the registered connection c
\* leaves: a full queue is closed without a runtime error, a queue with room
\* holds the message and the connection stays registered.
Delivered(c, m) ==
    IF Full(c)
       THEN crashed' = crashed /\ Send[c].closes = 0 /\ Send'[c].closes = 1
       ELSE /\ crashed' = crashed
            /\ Send'[c].buf = Append(Send[c].buf, m)
            /\ Registered(c)'

\* C22: a delivery attempt of SendToUser or of the broadcast on a registered
\* connection with a full queue closes the queue and goes on to remove the
\* connection from the registry, which the removal step does; an attempt on a
\* registered connection with room appends the message and leaves the
\* connection registered; no attempt waits or ends in a runtime error.
C22_SlowConsumerEvicted ==
    [][/\ \A s \in Senders, c \in Conns, m \in 1..MaxSends :
            /\ snd[s].pc = "select" => ENABLED SendSelect(s)
            /\ SendAttempt(s) /\ snd[s].c = c /\ snd[s].msg = m
                    /\ Registered(c) =>
                  /\ Delivered(c, m)
                  /\ Full(c) => snd'[s].pc = "lock"
            /\ snd[s].pc = "delete" /\ snd'[s].pc # "delete" /\ snd[s].c = c =>
                  ~Registered(c)'
       /\ \A c \in Conns, m \in 1..MaxSends :
            /\ BroadcastAttempt(c) /\ run.msg = m =>
                  /\ Delivered(c, m)
                  /\ Full(c) => run'.pc = "b_del" /\ run'.c = c
            /\ run.pc = "b_del" /\ run'.pc # "b_del" /\ run.c = c =>
                  ~Registered(c)']_vars

\* A SendToUser call's delivery attempt on a registered connection ended the
\* process with a runtime error.
C22_AttemptPanicked ==
    \E s \in Senders :
        /\ crashed.by = s
        /\ crashed.error = "send on closed channel"
        /\ Registered(snd[s].c)

\* C23: no outbound queue is closed more than once, and a step that removes a
\* connection from the registry leaves the queue of that connection closed,
\* by one close.
C23_ClosedOnce ==
    /\ [](\A c \in Conns : Send[c].closes <= 1)
    /\ [][\A c \in Conns :
            conns[c].st # "none" /\ Registered(c) /\ ~Registered(c)' =>
                Send'[c].closes = 1]_vars

\* Hub.Run closed, in its unregister case, a queue that an eviction had closed.
C23_ClosedTwice ==
    \E c \in Conns :
        /\ Send[c].closes = 2
        /\ crashed = [by |-> "run", error |-> "close of closed channel"]

\* A connection lost its entry to the unregister of another connection of its
\* user, and its queue is open.
C23_RemovedUnclosed ==
    \E c \in Conns :
        /\ conns[c].st = "open" /\ c \in { registered[i] : i \in DOMAIN registered }
        /\ ~Registered(c)
        /\ Send[c].closes = 0
        /\ \E d \in Conns : d # c /\ conns[d].user = conns[c].user
                            /\ conns[d].st = "gone" /\ Send[d].closes = 1
        /\ run.pc = "select" /\ \A s \in Senders : snd[s].pc = "idle"

\* The step executes an assignment to the connection map or a delete on it.
MapWrite ==
    \/ clients' # clients
    \/ run.pc = "b_del" /\ run'.pc # "b_del"
    \/ \E s \in Senders : snd[s].pc = "delete" /\ snd'[s].pc # "delete"

\* C24: every write to the connection map is a step of Hub.Run made while
\* Hub.Run holds the mutex exclusively: no other task writes the map, and no
\* write happens while a task holds the read lock.
C24_SingleWriter ==
    [][MapWrite => mu.writer = "run" /\ mu.readers = {}]_vars

\* The delete of the broadcast ran while a SendToUser was at its lookup, and
\* the runtime ended the process.
C24_ConcurrentReadAndWrite ==
    /\ crashed = [by |-> "run", error |-> "concurrent map read and map write"]
    /\ \E s \in Senders : snd[s].pc = "lookup" /\ s \in mu.readers
    /\ "run" \in mu.readers

\* A SendToUser call is about to delete from the map.
C24_SenderDeletes == \E s \in Senders : snd[s].pc = "delete" /\ mu.writer = s

\* ---- sessions

\* The step is the one in which the call op of task k returns success.
SessReturns(k, op) ==
    ss[k].pc # "done" /\ ss'[k].pc = "done" /\ ss'[k].op = op /\ ss'[k].res = "OK"

\* C25: at the return of a successful UpdateSessionActivity(user) the session
\* blob of the user exists, its expiration was set by this call or later, and
\* the user is in the online set, whether the call found a session or not.
C25_RefreshRestoresPresence ==
    [][\A k \in SessTasks, u \in SessUsers :
          SessReturns(k, "UpdateSessionActivity") /\ ss'[k].user = u =>
              /\ u \in DOMAIN session'
              /\ session'[u].at >= ss'[k].t
              /\ u \in online']_vars

\* A user logged in and refreshed the session, nothing else ran, and the user
\* is not online.
C25_RefreshedOffline ==
    \E k \in SessTasks, u \in SessUsers :
        /\ sesscalls = 2
        /\ ss[k].pc = "done" /\ ss[k].op = "UpdateSessionActivity"
        /\ ss[k].res = "OK" /\ ss[k].user = u /\ ss[k].t = 2
        /\ ss[k].data # <<>>
        /\ u \in DOMAIN session /\ session[u].at = 2
        /\ u \notin online

\* C26: the step in which a logout of a user returns, and the step in which
\* the session key of a user expires, leave no session blob of the user and
\* the user out of the online set, so that IsOnline(user) is false.
C26_PresenceRemoved ==
    [][\A u \in SessUsers :
          \/ \E k \in SessTasks : SessReturns(k, "Logout") /\ ss'[k].user = u
          \/ u \in DOMAIN session /\ u \notin DOMAIN session' /\ ss' = ss
          => u \notin DOMAIN session' /\ u \notin online']_vars

\* IsOnline(user) ran after everything else had returned, with no session
\* blob of the user left, and the user is in the online set.
C26_OnlineWithoutSession ==
    \E k \in SessTasks, u \in SessUsers :
        /\ ss[k].pc = "done" /\ ss[k].op = "IsOnline" /\ ss[k].user = u
        /\ \A j \in SessTasks : j # k => ss[j].pc = "idle"
        /\ u \notin DOMAIN session
        /\ u \in online

\* ---- event subscription

\* The events the payloads parse to, in order, those that do not parse left out.
RECURSIVE Decoded(_)
Decoded(seq) ==
    IF seq = <<>> THEN <<>> ELSE Unmarshal(Head(seq)) \o Decoded(Tail(seq))

\* The subscriber goroutine runs and its context is not cancelled.
Subscribed == sub.st \in {"receiving", "sending"} /\ ~sub.done

\* C27: a message that does not parse does not end the subscription and is
\* not put on the stream: the goroutine ends only when its context is done or
\* receiving fails, the events put on the stream so far are exactly those the
\* messages handled so far parse to, in order, and every message published
\* while the subscription is on is handled while the subscription stays on.
C27_MalformedSkipped ==
    /\ [](sub.st = "closed" => sub.why \in {"context", "receive"})
    /\ [](sub.st # "none" =>
            received \o eventChan.buf =
                Decoded(SubSeq(pubsub, sub.from + 1, sub.pos)))
    /\ \A i \in 1..MaxPublished :
          (Subscribed /\ sub.from < i /\ i <= Len(pubsub))
              ~> (sub.pos >= i \/ ~Subscribed)

\* A message that does not parse was followed by an event, and the caller has
\* taken the event from the stream of the subscription, which is still on.
C27_DeliveredAfterMalformed ==
    \E i, j \in DOMAIN pubsub :
        /\ sub.from < i /\ i < j /\ j <= sub.pos
        /\ Unmarshal(pubsub[i]) = <<>>
        /\ Unmarshal(pubsub[j]) # <<>>
        /\ Subscribed
        /\ received # <<>> /\ received[Len(received)] = Unmarshal(pubsub[j])[1]

\* ---- locks and mirror

\* C28: every step that writes the store rows or the cache entries of a room
\* is a step of a call that holds its lock key: the call acquired the key and
\* the key is in Redis as that call set it.
C28_WritesUnderLock ==
    [][<<rooms, players, hash, pset>>' # <<rooms, players, hash, pset>> =>
          \E p \in Workers : w'[p] # w[p] /\ w[p].held /\ HoldsKey(p)]_vars

\* UpdateGameState wrote the hash of a room while a StartGame call on the
\* room held the room's game lock.
C28_StateWrittenBesideHolder ==
    \E p, q \in Workers :
        /\ ReturnedFrom(p, "UpdateGameState") /\ w[p].res = "OK"
        /\ w[q].op = "StartGame" /\ InCritical(q) /\ HoldsKey(q)
        /\ w[q].room = w[p].room /\ w[q].t < w[p].t
        /\ w[p].room \in DOMAIN hash
        /\ hash[w[p].room].game_state = GameStatePlaying

\* C29: lock keys are per room.  For two distinct rooms (distinct ids,
\* distinct codes) the keys the calls of JoinRoom, LeaveRoom, StartGame and
\* EndGame derive for the one differ from the keys they derive for the other,
\* and an AcquireLock that finds the key taken finds it taken by a call on
\* the same room: no call is turned away with Conflict by the lock of
\* another room.
C29_KeysPerRoom ==
    probe # NoProbe =>
        /\ \A op1, op2 \in LockingOps :
            OpLockKey(op1, probe.rooms[1]) # OpLockKey(op2, probe.rooms[2])
        /\ ~probe.last.ok => probe.last.holder = probe.last.room

\* A call on one room was turned away by the key a call on the other holds.
C29_ConflictAcrossRooms ==
    /\ probe # NoProbe
    /\ ~probe.last.ok
    /\ probe.last.holder # probe.last.room

\* The members of room i in the cache, and in the store.
CachedMembers(i) == IF i \in DOMAIN pset THEN pset[i] ELSE {}
ActiveMembers(i) == { players[j].user : j \in ActiveRows(i) }

\* C30: the cache mirrors the store in lockstep.  Whenever no room operation
\* is in progress (no cache write fails in this environment), for every
\* existing room the room hash has the row's status and occupancy, and the
\* cached membership set is the set of the users with an active membership,
\* the owner included.
C30_MirrorLockstep ==
    Quiet =>
        \A i \in RoomIds :
            GetByID(i) # NoRoom =>
                /\ MirrorAgrees(i)
                /\ CachedMembers(i) = ActiveMembers(i)

\* A CreateRoom call has made its room and returns success, no other call
\* is in progress, and the owner it made a member is not in the cached
\* membership set.
C30_OwnerNotCached ==
    \E p \in Workers :
        /\ w[p].pc = "done" /\ w[p].op = "CreateRoom" /\ w[p].res = "OK"
        /\ \A q \in Workers \ {p} : w[q].pc = "idle"
        /\ \E i \in RoomIds :
            /\ GetByID(i) # NoRoom
            /\ MirrorAgrees(i)
            /\ rooms[i].owner \in ActiveMembers(i)
            /\ rooms[i].owner \notin CachedMembers(i)

\* The fields of the room hash of room id; none when there is no hash.
HashFields(id) == IF id \in DOMAIN hash THEN hash[id] ELSE <<>>

\* C31: UpdateGameState merges its patch into the room hash.  A call that
\* returns success has set every field the patch names to the patch's value
\* and game_state to the given state (to the patch's value when the patch
\* names game_state itself), and has left every other field of the hash, the
\* other hashes, the cached membership sets and the store as they were.
\* GetGameState returns the fields of the hash as they are and changes
\* neither cache nor store.
C31_MergePatch ==
    [][\A p \in Workers :
        /\ Returns(p, "UpdateGameState") /\ w'[p].res = "OK" =>
            /\ DOMAIN hash' = (DOMAIN hash) \cup {w'[p].room}
            /\ DOMAIN hash'[w'[p].room] =
                    (DOMAIN HashFields(w'[p].room)) \cup {"game_state"}
                        \cup DOMAIN w'[p].data
            /\ \A f \in DOMAIN hash'[w'[p].room] :
                    hash'[w'[p].room][f] =
                        IF f \in DOMAIN w'[p].data THEN w'[p].data[f]
                        ELSE IF f = "game_state" THEN w'[p].state
                        ELSE hash[w'[p].room][f]
            /\ \A i \in (DOMAIN hash) \ {w'[p].room} : hash'[i] = hash[i]
            /\ UNCHANGED <<rooms, players, pset>>
        /\ Returns(p, "GetGameState") =>
            /\ UNCHANGED <<rooms, players, hash, pset>>
            /\ w'[p].res = "OK" => w'[p].got = HashFields(w'[p].room)
      ]_vars

\* An UpdateGameState call has patched the status of a room's hash, whose
\* other fields stand, away from the status of the room's row, and a
\* GetGameState call has returned the hash as patched.
C31_PatchedAndRead ==
    \E p, q \in Workers :
        /\ ReturnedFrom(p, "UpdateGameState") /\ w[p].res = "OK"
        /\ w[p].data = [status |-> RoomStatusFinished]
        /\ ReturnedFrom(q, "GetGameState") /\ w[q].res = "OK"
        /\ w[q].room = w[p].room
        /\ GetByID(w[p].room) # NoRoom
        /\ rooms[w[p].room].status = RoomStatusWaiting
        /\ w[q].got = hash[w[p].room]
        /\ w[q].got.status = RoomStatusFinished
        /\ w[q].got.game_state = GameStatePlaying
        /\ w[q].got.current_players = rooms[w[p].room].cur

\* Hub.Run has dealt with the unregister request of connection c.
Unregistered(c) ==
    conns[c].st = "gone" /\ ~(run.c = c /\ run.pc \in {"u_lock", "u_del"})

\* C32: once the outbound queue of a connection is closed, its WritePump
\* eventually writes the close frame, returns and closes the connection;
\* its ReadPump then ends and its unregister request is eventually dealt
\* with; and both pumps of every connection that was unregistered end.
C32_PumpsTerminate ==
    \A c \in Conns :
        /\ Send[c].closes > 0 ~> conns[c].writer = "done"
        /\ conns[c].writer = "done" ~> Unregistered(c)
        /\ Unregistered(c) ~> conns[c].writer = "done"

\* The queue of a connection is closed, its writer has not seen it yet, and
\* the process has ended in a panic.
C32_ClosedThenCrashed ==
    \E c \in Conns :
        Send[c].closes > 0 /\ conns[c].writer = "run" /\ ~Live

\* A connection was unregistered without its queue ever being closed, while
\* the process runs: its writer waits on the queue for ever.
C32_WriterLeft ==
    \E c \in Conns :
        /\ Live
        /\ Unregistered(c)
        /\ conns[c].writer = "run"
        /\ Send[c].closes = 0 /\ Send[c].buf = <<>>
        /\ ~Registered(c)

ReleasesForeignKey(p) ==
    /\ w[p].pc = "release" /\ w'[p].pc = "done"
    /\ w[p].key \in DOMAIN lock
    /\ lock[w[p].key].by # w[p].t
    /\ w[p].key \notin DOMAIN lock'

\* C34: a lock key has one holder at a time, also past its expiration.  No
\* two calls are between acquisition and release of the same key at the
\* same time, and the ReleaseLock of a call whose key has expired does not
\* remove the key another call has acquired since.
C34_OneHolderPerKey ==
    /\ [](\A p, q \in Workers :
            p # q /\ InCritical(p) /\ InCritical(q) => w[p].key # w[q].key)
    /\ [][\A p \in Workers : ~ReleasesForeignKey(p)]_vars

\* Two calls are inside the critical section of one key, and the key in Redis
\* is the one the later of them set.
C34_TwoInside ==
    \E p, q \in Workers :
        /\ p # q /\ InCritical(p) /\ InCritical(q)
        /\ w[p].key = w[q].key
        /\ w[p].t < w[q].t
        /\ HoldsKey(q)

\* C35: a LeaveRoom call of a user who has no active membership in the room
\* changes no row of the rooms table and no membership (so neither the
\* room's occupancy nor its deletion mark), and a room is deleted only in a
\* state where it has no active membership.
C35_NonMemberLeaveIsNoOp ==
    /\ [][\A p \in Workers :
            /\ w[p].op = "LeaveRoom"
            /\ w'[p] # w[p]
            /\ \/ w[p].pc = "l_mark"
                   /\ GetByRoomIDAndUserID(w[p].room, w[p].user) = {}
               \/ w[p].pc \in {"l_update", "l_delete"} /\ ~w[p].member
            => UNCHANGED <<rooms, players>>]_vars
    /\ [][\A i \in RoomIds :
            ~rooms[i].deleted /\ rooms'[i].deleted => ActiveRows(i) = {}]_vars

\* A LeaveRoom call of a user without a membership has returned success, and
\* the room it named is deleted while a member's membership is active.
C35_DeletedUnderMember ==
    \E p \in Workers :
        /\ ReturnedFrom(p, "LeaveRoom") /\ w[p].res = "OK" /\ ~w[p].member
        /\ w[p].room \in RoomIds
        /\ rooms[w[p].room].deleted
        /\ ActiveRows(w[p].room) # {}

\* C36: unregister removes only the entry of the client it is given.  When
\* Hub.Run deals with the unregister request of a connection, the registry
\* entry of every other connection, such as the second connection of the
\* same user that has displaced it, stays in place and its queue stays as
\* it is.
C36_UnregisterOwnEntryOnly ==
    [][\A c, d \in Conns :
        run.pc = "u_del" /\ run.c = c /\ d # c /\ <<conns[d].user, d>> \in clients
            => /\ <<conns[d].user, d>> \in clients'
               /\ Send'[d] = Send[d]]_vars

\* The first connection of a user, displaced by the second, was unregistered:
\* its queue is closed, and the second connection, whose reader still runs
\* and whose queue is open, has no entry any more.
C36_SecondDropped ==
    \E c, d \in Conns :
        /\ c < d /\ conns[c].user = conns[d].user
        /\ conns[c].st = "gone" /\ Send[c].closes = 1
        /\ conns[d].st = "open" /\ Send[d].closes = 0
        /\ \E i \in DOMAIN registered : registered[i] = d
        /\ MapGet(clients, conns[d].user) = {}
        /\ run.pc = "select"
        /\ Live

\* C37: no message is sent into a closed outbound queue: no SendToUser call
\* and no broadcast reaches its send on a queue that has been closed.
C37_NoSendAfterClose == crashed.error # "send on closed channel"

\* A SendToUser call that had looked its client up and dropped the read lock
\* has sent on the client's queue after Hub.Run closed it.
C37_SentAfterUnregister ==
    \E s \in Senders :
        /\ crashed = [by |-> s, error |-> "send on closed channel"]
        /\ snd[s].pc = "select"
        /\ Send[snd[s].c].closes = 1
        /\ conns[snd[s].c].st = "gone"

\* The message m waits in Hub.broadcast, or Hub.Run is handing it out.
BroadcastPending(m) ==
    \/ \E i \in DOMAIN broadcast : broadcast[i] = m
    \/ run.msg = m /\ run.pc \in {"b_rlock", "b_range", "b_del"}

\* C38: Hub.Run never blocks for ever, and every request made to it is
\* eventually dealt with: Hub.Run always returns to its select, the client
\* of a handler that waits to register is eventually in the registry
\* history, the request of a reader that waits to unregister is eventually
\* dealt with, and a message queued for broadcast is eventually handed out.
C38_RequestsProcessed ==
    /\ run.pc # "select" ~> run.pc = "select"
    /\ \A c \in Conns :
        /\ conns[c].st = "connecting"
                ~> (\E i \in DOMAIN registered : registered[i] = c)
        /\ conns[c].st = "leaving" ~> Unregistered(c)
    /\ \A m \in 1..MaxSends : BroadcastPending(m) ~> ~BroadcastPending(m)

\* A reader waits to unregister, and Hub.Run has ended in a panic.
C38_WaitingOnDeadHub ==
    \E c \in Conns :
        /\ conns[c].st = "leaving"
        /\ crashed.by = "run"

\* The room ids that have a hash or a membership set in the cache.
CachedRooms == (DOMAIN hash) \cup (DOMAIN pset)

\* The step writes the hash or the membership set of room i.
CacheWritten(i) ==
    \/ i \in DOMAIN hash' /\ (i \notin DOMAIN hash \/ hash'[i] # hash[i])
    \/ i \in DOMAIN pset' /\ (i \notin DOMAIN pset \/ pset'[i] # pset[i])

\* C39: the cache has entries only for rooms of the store.  No step creates
\* or updates the hash or the membership set of a room id that has no live
\* row, and whenever no call is in progress every cached room id has a live
\* row: none outlives the room's deletion by LeaveRoom or comes back after
\* it.
C39_CacheOnlyForStoredRooms ==
    /\ [](Quiet => \A i \in CachedRooms : GetByID(i) # NoRoom)
    /\ [][\A i \in CachedRooms' : CacheWritten(i) => GetByID(i) # NoRoom]_vars

\* UpdateGameState has returned success for a room id the store never had,
\* and the cache has a hash for it.
C39_HashOfNoRoom ==
    \E p \in Workers :
        /\ ReturnedFrom(p, "UpdateGameState") /\ w[p].res = "OK"
        /\ w[p].room \notin RoomIds
        /\ w[p].room \in DOMAIN hash

\* No call is in progress, a LeaveRoom call has emptied and deleted a room,
\* and the cache has a hash for the room.
C39_HashAfterDelete ==
    /\ Quiet
    /\ \E e \in emptied :
        /\ rooms[e.room].deleted
        /\ e.room \in DOMAIN hash

====
